---- MODULE Spec2Model ----
(***************************************************************************)
(* A model of mna/mainer's Parser (src/flag.go, lines 1-393): the          *)
(* struct-tag driven flag parser with its environment pre-pass, the        *)
(* flag/positional interleaving scan built on the standard flag package,   *)
(* the delivery of SetArgs / SetFlags / SetFlagsCount and the Validate     *)
(* hook.                                                                   *)
(*                                                                         *)
(* Go strings are modelled as sequences of one-character strings, so that  *)
(* prefix tests, splitting on "=" or "," and literal parsing are computed  *)
(* character by character as the code does.  The characters are those of   *)
(* printable ASCII but U+0060, tab, line feed and carriage return, of       *)
(* Latin-1 from U+00A0 and of the Greek block from U+0380; a byte above     *)
(* 0x7F that belongs to no such character stands as itself, under a name    *)
(* of its own.  What the code does with other characters the model does     *)
(* not say.                                                                *)
(***************************************************************************)
EXTENDS Integers, Sequences, FiniteSets, TLC

(***************************************************************************)
(* Strings (package strings, on character sequences)                       *)
(***************************************************************************)

Range(s) == { s[i] : i \in 1..Len(s) }

\* s[from:] with a 0-based Go index
Drop(s, n) == SubSeq(s, n + 1, Len(s))

\* s[:n]
Take(s, n) == SubSeq(s, 1, n)

HasPrefix(s, p) == Len(s) >= Len(p) /\ Take(s, Len(p)) = p

HasSuffix(s, p) == Len(s) >= Len(p) /\ Drop(s, Len(s) - Len(p)) = p

\* strings.IndexByte: the 1-based position of the first c in s, 0 when absent
IndexByte(s, c) ==
  IF \E i \in 1..Len(s) : s[i] = c
  THEN CHOOSE i \in 1..Len(s) : s[i] = c /\ \A j \in 1..(i - 1) : s[j] # c
  ELSE 0

\* the 1-based position of the last c in s, 0 when absent
LastIndexByte(s, c) ==
  IF \E i \in 1..Len(s) : s[i] = c
  THEN CHOOSE i \in 1..Len(s) : s[i] = c /\ \A j \in (i + 1)..Len(s) : s[j] # c
  ELSE 0

RECURSIVE Split(_, _)
\* strings.Split(s, sep) for a one-character separator: always at least one
\* element, the empty string splits into one empty string
Split(s, sep) ==
  LET i == IndexByte(s, sep)
  IN IF i = 0 THEN << s >>
     ELSE << Take(s, i - 1) >> \o Split(Drop(s, i), sep)

RECURSIVE Reverse(_)
Reverse(s) == IF s = << >> THEN << >> ELSE Reverse(Tail(s)) \o << Head(s) >>

LowerChars == << "a", "b", "c", "d", "e", "f", "g", "h", "i", "j", "k", "l", "m",
                 "n", "o", "p", "q", "r", "s", "t", "u", "v", "w", "x", "y", "z" >>

UpperChars == << "A", "B", "C", "D", "E", "F", "G", "H", "I", "J", "K", "L", "M",
                 "N", "O", "P", "Q", "R", "S", "T", "U", "V", "W", "X", "Y", "Z" >>

\* lower of strconv: the letters of ASCII
ToLowerChar(c) ==
  IF c \in Range(UpperChars) THEN LowerChars[IndexByte(UpperChars, c)] ELSE c

\* the characters U+0020 to U+005F, in order
AsciiChars ==
  << " ", "!", "\"", "#", "$", "%", "&", "'", "(", ")", "*", "+",
     ",", "-", ".", "/", "0", "1", "2", "3", "4", "5", "6", "7",
     "8", "9", ":", ";", "<", "=", ">", "?", "@", "A", "B", "C",
     "D", "E", "F", "G", "H", "I", "J", "K", "L", "M", "N", "O",
     "P", "Q", "R", "S", "T", "U", "V", "W", "X", "Y", "Z", "[",
     "\\", "]", "^", "_" >>

\* the characters U+0061 to U+007E, in order
AsciiTail ==
  << "a", "b", "c", "d", "e", "f", "g", "h", "i", "j", "k", "l",
     "m", "n", "o", "p", "q", "r", "s", "t", "u", "v", "w", "x",
     "y", "z", "{", "|", "}", "~" >>

\* the characters U+00A0 to U+00FF, in order
Latin1Chars ==
  << " ", "¡", "¢", "£", "¤", "¥", "¦", "§", "¨", "©", "ª", "«",
     "¬", "­", "®", "¯", "°", "±", "²", "³", "´", "µ", "¶", "·",
     "¸", "¹", "º", "»", "¼", "½", "¾", "¿", "À", "Á", "Â", "Ã",
     "Ä", "Å", "Æ", "Ç", "È", "É", "Ê", "Ë", "Ì", "Í", "Î", "Ï",
     "Ð", "Ñ", "Ò", "Ó", "Ô", "Õ", "Ö", "×", "Ø", "Ù", "Ú", "Û",
     "Ü", "Ý", "Þ", "ß", "à", "á", "â", "ã", "ä", "å", "æ", "ç",
     "è", "é", "ê", "ë", "ì", "í", "î", "ï", "ð", "ñ", "ò", "ó",
     "ô", "õ", "ö", "÷", "ø", "ù", "ú", "û", "ü", "ý", "þ", "ÿ" >>

\* the characters U+0380 to U+03FF, in order
GreekChars ==
  << "΀", "΁", "΂", "΃", "΄", "΅", "Ά", "·", "Έ", "Ή", "Ί", "΋",
     "Ό", "΍", "Ύ", "Ώ", "ΐ", "Α", "Β", "Γ", "Δ", "Ε", "Ζ", "Η",
     "Θ", "Ι", "Κ", "Λ", "Μ", "Ν", "Ξ", "Ο", "Π", "Ρ", "΢", "Σ",
     "Τ", "Υ", "Φ", "Χ", "Ψ", "Ω", "Ϊ", "Ϋ", "ά", "έ", "ή", "ί",
     "ΰ", "α", "β", "γ", "δ", "ε", "ζ", "η", "θ", "ι", "κ", "λ",
     "μ", "ν", "ξ", "ο", "π", "ρ", "ς", "σ", "τ", "υ", "φ", "χ",
     "ψ", "ω", "ϊ", "ϋ", "ό", "ύ", "ώ", "Ϗ", "ϐ", "ϑ", "ϒ", "ϓ",
     "ϔ", "ϕ", "ϖ", "ϗ", "Ϙ", "ϙ", "Ϛ", "ϛ", "Ϝ", "ϝ", "Ϟ", "ϟ",
     "Ϡ", "ϡ", "Ϣ", "ϣ", "Ϥ", "ϥ", "Ϧ", "ϧ", "Ϩ", "ϩ", "Ϫ", "ϫ",
     "Ϭ", "ϭ", "Ϯ", "ϯ", "ϰ", "ϱ", "ϲ", "ϳ", "ϴ", "ϵ", "϶", "Ϸ",
     "ϸ", "Ϲ", "Ϻ", "ϻ", "ϼ", "Ͻ", "Ͼ", "Ͽ" >>

\* the bytes 0x80 to 0xFF, in order, where they belong to no character
ByteNames ==
  << "\\x80", "\\x81", "\\x82", "\\x83", "\\x84", "\\x85", "\\x86", "\\x87",
     "\\x88", "\\x89", "\\x8a", "\\x8b", "\\x8c", "\\x8d", "\\x8e", "\\x8f",
     "\\x90", "\\x91", "\\x92", "\\x93", "\\x94", "\\x95", "\\x96", "\\x97",
     "\\x98", "\\x99", "\\x9a", "\\x9b", "\\x9c", "\\x9d", "\\x9e", "\\x9f",
     "\\xa0", "\\xa1", "\\xa2", "\\xa3", "\\xa4", "\\xa5", "\\xa6", "\\xa7",
     "\\xa8", "\\xa9", "\\xaa", "\\xab", "\\xac", "\\xad", "\\xae", "\\xaf",
     "\\xb0", "\\xb1", "\\xb2", "\\xb3", "\\xb4", "\\xb5", "\\xb6", "\\xb7",
     "\\xb8", "\\xb9", "\\xba", "\\xbb", "\\xbc", "\\xbd", "\\xbe", "\\xbf",
     "\\xc0", "\\xc1", "\\xc2", "\\xc3", "\\xc4", "\\xc5", "\\xc6", "\\xc7",
     "\\xc8", "\\xc9", "\\xca", "\\xcb", "\\xcc", "\\xcd", "\\xce", "\\xcf",
     "\\xd0", "\\xd1", "\\xd2", "\\xd3", "\\xd4", "\\xd5", "\\xd6", "\\xd7",
     "\\xd8", "\\xd9", "\\xda", "\\xdb", "\\xdc", "\\xdd", "\\xde", "\\xdf",
     "\\xe0", "\\xe1", "\\xe2", "\\xe3", "\\xe4", "\\xe5", "\\xe6", "\\xe7",
     "\\xe8", "\\xe9", "\\xea", "\\xeb", "\\xec", "\\xed", "\\xee", "\\xef",
     "\\xf0", "\\xf1", "\\xf2", "\\xf3", "\\xf4", "\\xf5", "\\xf6", "\\xf7",
     "\\xf8", "\\xf9", "\\xfa", "\\xfb", "\\xfc", "\\xfd", "\\xfe", "\\xff" >>

\* the code point of a character
CodePoint(c) ==
  CASE c \in Range(AsciiChars) -> IndexByte(AsciiChars, c) + 31
    [] c \in Range(AsciiTail) -> IndexByte(AsciiTail, c) + 96
    [] c = "\t" -> 9
    [] c = "\n" -> 10
    [] c = "\r" -> 13
    [] c \in Range(Latin1Chars) -> IndexByte(Latin1Chars, c) + 159
    [] c \in Range(GreekChars) -> IndexByte(GreekChars, c) + 895

\* the code points that have a character here
IsRune(n) ==
  n \in { 9, 10, 13 } \cup (32..95) \cup (97..126) \cup (160..255) \cup (896..1023)

\* the character of a code point
Rune(n) ==
  CASE n \in 32..95 -> AsciiChars[n - 31]
    [] n \in 97..126 -> AsciiTail[n - 96]
    [] n = 9 -> "\t"
    [] n = 10 -> "\n"
    [] n = 13 -> "\r"
    [] n \in 160..255 -> Latin1Chars[n - 159]
    [] n \in 896..1023 -> GreekChars[n - 895]

\* the bytes of a code point below U+0800 in UTF-8
AppendRune(n) ==
  IF n < 128 THEN << n >> ELSE << 192 + (n \div 64), 128 + (n % 64) >>

\* the bytes of a character in UTF-8
EncodeRune(c) ==
  IF c \in Range(ByteNames) THEN << IndexByte(ByteNames, c) + 127 >>
  ELSE AppendRune(CodePoint(c))

RECURSIVE ToBytes(_)
\* []byte(s)
ToBytes(s) ==
  IF s = << >> THEN << >> ELSE EncodeRune(s[1]) \o ToBytes(Tail(s))

RECURSIVE FromBytes(_)
\* string(b): the characters that b encodes, a byte that begins no
\* character as itself.  The first byte of a character of two bytes is
\* 0xC2 at least: 0xC0 and 0xC1 begin no character
FromBytes(b) ==
  IF b = << >> THEN << >>
  ELSE IF b[1] < 128 THEN << Rune(b[1]) >> \o FromBytes(Tail(b))
  ELSE IF /\ Len(b) >= 2 /\ b[1] \in 194..223 /\ b[2] \in 128..191
          /\ IsRune((b[1] - 192) * 64 + (b[2] - 128))
       THEN << Rune((b[1] - 192) * 64 + (b[2] - 128)) >> \o FromBytes(Drop(b, 2))
       ELSE << ByteNames[b[1] - 127] >> \o FromBytes(Tail(b))

\* the upper case of the code points above ASCII that have one: the simple
\* mapping of Unicode, which unicode.ToUpper applies
UpperCase ==
  << << 181, 924 >>, << 224, 192 >>, << 225, 193 >>, << 226, 194 >>, << 227, 195 >>,
     << 228, 196 >>, << 229, 197 >>, << 230, 198 >>, << 231, 199 >>, << 232, 200 >>,
     << 233, 201 >>, << 234, 202 >>, << 235, 203 >>, << 236, 204 >>, << 237, 205 >>,
     << 238, 206 >>, << 239, 207 >>, << 240, 208 >>, << 241, 209 >>, << 242, 210 >>,
     << 243, 211 >>, << 244, 212 >>, << 245, 213 >>, << 246, 214 >>, << 248, 216 >>,
     << 249, 217 >>, << 250, 218 >>, << 251, 219 >>, << 252, 220 >>, << 253, 221 >>,
     << 254, 222 >>, << 255, 376 >>, << 940, 902 >>, << 941, 904 >>, << 942, 905 >>,
     << 943, 906 >>, << 945, 913 >>, << 946, 914 >>, << 947, 915 >>, << 948, 916 >>,
     << 949, 917 >>, << 950, 918 >>, << 951, 919 >>, << 952, 920 >>, << 953, 921 >>,
     << 954, 922 >>, << 955, 923 >>, << 956, 924 >>, << 957, 925 >>, << 958, 926 >>,
     << 959, 927 >>, << 960, 928 >>, << 961, 929 >>, << 962, 931 >>, << 963, 931 >>,
     << 964, 932 >>, << 965, 933 >>, << 966, 934 >>, << 967, 935 >>, << 968, 936 >>,
     << 969, 937 >>, << 970, 938 >>, << 971, 939 >>, << 972, 908 >>, << 973, 910 >>,
     << 974, 911 >>, << 976, 914 >>, << 977, 920 >>, << 981, 934 >>, << 982, 928 >>,
     << 983, 975 >>, << 985, 984 >>, << 987, 986 >>, << 989, 988 >>, << 991, 990 >>,
     << 993, 992 >>, << 995, 994 >>, << 997, 996 >>, << 999, 998 >>, << 1001, 1000 >>,
     << 1003, 1002 >>, << 1005, 1004 >>, << 1007, 1006 >>, << 1008, 922 >>, << 1009, 929 >>,
     << 1010, 1017 >>, << 1011, 895 >>, << 1013, 917 >>, << 1016, 1015 >>, << 1019, 1018 >> >>

\* unicode.ToUpper
ToUpperRune(n) ==
  IF n \in 97..122 THEN n - 32
  ELSE IF \E i \in 1..Len(UpperCase) : UpperCase[i][1] = n
       THEN UpperCase[CHOOSE i \in 1..Len(UpperCase) : UpperCase[i][1] = n][2]
       ELSE n

\* the upper case of a character, as a string: that of U+00FF and that of
\* U+03F3 are no characters here, and their bytes stand for them
ToUpperChar(c) == FromBytes(AppendRune(ToUpperRune(CodePoint(c))))

RECURSIVE ToUpper(_)
\* strings.ToUpper, of a string of characters
ToUpper(s) ==
  IF s = << >> THEN << >> ELSE ToUpperChar(s[1]) \o ToUpper(Tail(s))

\* strings.ReplaceAll(s, old, new) for one-character old and new
ReplaceAll(s, old, new) == [ i \in 1..Len(s) |-> IF s[i] = old THEN new ELSE s[i] ]

\* sliceContains(sl, s)
sliceContains(sl, s) == \E i \in 1..Len(sl) : sl[i] = s

(***************************************************************************)
(* Unbounded naturals as big-endian decimal digit sequences without        *)
(* leading zeros (zero is the empty sequence): 64-bit values do not fit    *)
(* the checker's integers, and the range checks of strconv are at 2^63     *)
(* and 2^64.                                                               *)
(***************************************************************************)

DigitChars == << "0", "1", "2", "3", "4", "5", "6", "7", "8", "9" >>

IsDigit(c) == c \in Range(DigitChars)

\* the value of a digit or letter in a base up to 36, 99 for any other character
DigitVal(c) ==
  IF IsDigit(c) THEN IndexByte(DigitChars, c) - 1
  ELSE IF ToLowerChar(c) \in Range(LowerChars)
       THEN IndexByte(LowerChars, ToLowerChar(c)) + 9
       ELSE 99

\* the digits d without the leading zeros
StripZeros(d) ==
  IF \A i \in 1..Len(d) : d[i] = 0 THEN << >>
  ELSE Drop(d, (CHOOSE i \in 1..Len(d) :
                  d[i] # 0 /\ \A j \in 1..(i - 1) : d[j] = 0) - 1)

RECURSIVE MulAddLE(_, _, _)
\* little-endian digits of le * m + carry
MulAddLE(le, m, carry) ==
  IF le = << >>
  THEN IF carry = 0 THEN << >>
       ELSE << carry % 10 >> \o MulAddLE(<< >>, m, carry \div 10)
  ELSE LET t == le[1] * m + carry
       IN << t % 10 >> \o MulAddLE(Tail(le), m, t \div 10)

\* d * m + a for small naturals m and a
MulAdd(d, m, a) == StripZeros(Reverse(MulAddLE(Reverse(d), m, a)))

RECURSIVE AddLE(_, _, _)
AddLE(x, y, carry) ==
  IF x = << >> /\ y = << >>
  THEN IF carry = 0 THEN << >> ELSE << carry >>
  ELSE LET a == IF x = << >> THEN 0 ELSE x[1]
           b == IF y = << >> THEN 0 ELSE y[1]
           t == a + b + carry
       IN << t % 10 >> \o AddLE(IF x = << >> THEN x ELSE Tail(x),
                                 IF y = << >> THEN y ELSE Tail(y), t \div 10)

BigAdd(x, y) == StripZeros(Reverse(AddLE(Reverse(x), Reverse(y), 0)))

RECURSIVE LexLess(_, _)
LexLess(x, y) ==
  /\ x # << >>
  /\ \/ x[1] < y[1]
     \/ x[1] = y[1] /\ LexLess(Tail(x), Tail(y))

\* x < y
BigLess(x, y) == Len(x) < Len(y) \/ (Len(x) = Len(y) /\ LexLess(x, y))

\* 2^63 and 2^64, the cutoffs of the 64-bit int, uint and Duration
Two63 == << 9, 2, 2, 3, 3, 7, 2, 0, 3, 6, 8, 5, 4, 7, 7, 5, 8, 0, 8 >>

Two64 == << 1, 8, 4, 4, 6, 7, 4, 4, 0, 7, 3, 7, 0, 9, 5, 5, 1, 6, 1, 6 >>

\* 2^63 - 1 and 2^64 - 1, what strconv returns with a range error
MaxInt64 == << 9, 2, 2, 3, 3, 7, 2, 0, 3, 6, 8, 5, 4, 7, 7, 5, 8, 0, 7 >>

MaxUint64 == << 1, 8, 4, 4, 6, 7, 4, 4, 0, 7, 3, 7, 0, 9, 5, 5, 1, 6, 1, 5 >>

\* a small natural as digits
RECURSIVE BigOf(_)
BigOf(n) == IF n = 0 THEN << >> ELSE BigOf(n \div 10) \o << n % 10 >>

RECURSIVE SubLE(_, _, _)
SubLE(x, y, borrow) ==
  IF x = << >> THEN << >>
  ELSE LET b == IF y = << >> THEN 0 ELSE y[1]
           t == x[1] - b - borrow
       IN << (t + 10) % 10 >> \o SubLE(Tail(x), IF y = << >> THEN y ELSE Tail(y),
                                       IF t < 0 THEN 1 ELSE 0)

\* x - y, for y <= x
BigSub(x, y) == StripZeros(Reverse(SubLE(Reverse(x), Reverse(y), 0)))

RECURSIVE BigMulAcc(_, _, _)
BigMulAcc(x, y, acc) ==
  IF y = << >> THEN acc
  ELSE IF acc = << >> /\ y[1] = 0 THEN BigMulAcc(x, Tail(y), << >>)
  ELSE BigMulAcc(x, Tail(y), BigAdd(MulAdd(acc, 10, 0), MulAdd(x, y[1], 0)))

\* x * y
BigMul(x, y) == BigMulAcc(x, y, << >>)

RECURSIVE DivSmallBE(_, _, _)
DivSmallBE(x, d, carry) ==
  IF x = << >> THEN << >>
  ELSE << (carry * 10 + x[1]) \div d >>
         \o DivSmallBE(Tail(x), d, (carry * 10 + x[1]) % d)

\* x \div d for a small natural d
DivSmall(x, d) == StripZeros(DivSmallBE(x, d, 0))

RECURSIVE ModSmallBE(_, _, _)
ModSmallBE(x, d, carry) ==
  IF x = << >> THEN carry ELSE ModSmallBE(Tail(x), d, (carry * 10 + x[1]) % d)

\* x % d for a small natural d
ModSmall(x, d) == ModSmallBE(x, d, 0)

\* x \div 2
Halve(x) == DivSmall(x, 2)

IsOdd(x) == x # << >> /\ x[Len(x)] % 2 = 1

RECURSIVE Shl(_, _)
\* x * 2^n
Shl(x, n) ==
  IF n = 0 \/ x = << >> THEN x
  ELSE IF n >= 20 THEN Shl(MulAdd(x, 1048576, 0), n - 20)
  ELSE Shl(MulAdd(x, 2, 0), n - 1)

RECURSIVE TimesIn(_, _, _)
\* how many times y goes into r, and what is left
TimesIn(r, y, n) ==
  IF BigLess(r, y) THEN [ n |-> n, r |-> r ] ELSE TimesIn(BigSub(r, y), y, n + 1)

\* a step of long division: the next digit d of the dividend is brought down
\* to the remainder, st is the quotient and the remainder so far
DivDigit(st, y, d, t) == [ q |-> st.q \o << t.n >>, r |-> t.r ]

RECURSIVE DivDigits(_, _, _, _)
\* long division of the digits of x up to the hi-th, from a state st that has
\* one digit of quotient for each digit brought down: the first half of the
\* digits left, then the second
DivDigits(x, y, st, hi) ==
  IF Len(st.q) >= hi THEN st
  ELSE IF Len(st.q) + 1 = hi
       THEN DivDigit(st, y, x[hi], TimesIn(StripZeros(st.r \o << x[hi] >>), y, 0))
  ELSE DivDigits(x, y, DivDigits(x, y, st, (Len(st.q) + hi) \div 2), hi)

\* x \div y and x % y, for y > 0
BigDivMod(x, y) ==
  LET st == DivDigits(x, y, [ q |-> << >>, r |-> << >> ], Len(x))
  IN [ q |-> StripZeros(st.q), r |-> st.r ]

(***************************************************************************)
(* float64 arithmetic on positive values m * 2^e, m below 2^53 or 2^53     *)
(* itself: conversion from an integer, product and quotient, each rounded  *)
(* to the nearest float64, ties to even.  The values time.ParseDuration    *)
(* computes with are far from the overflow and the denormals of float64.   *)
(***************************************************************************)

Two53 == << 9, 0, 0, 7, 1, 9, 9, 2, 5, 4, 7, 4, 0, 9, 9, 2 >>

\* 2^73
Two73 == << 9, 4, 4, 4, 7, 3, 2, 9, 6, 5, 7, 3, 9, 2, 9, 0, 4, 2, 7, 3, 9, 2 >>

RECURSIVE round53(_, _, _, _)
\* m * 2^e rounded to 53 bits: half is the last bit shifted out, sticky
\* whether a bit shifted out before it was set
round53(m, e, half, sticky) ==
  IF ~BigLess(m, Two73)
  THEN round53(DivSmall(m, 1048576), e + 20, ModSmall(m, 1048576) >= 524288,
               sticky \/ half \/ ModSmall(m, 524288) # 0)
  ELSE IF ~BigLess(m, Two53) THEN round53(Halve(m), e + 1, IsOdd(m), sticky \/ half)
  ELSE IF half /\ (sticky \/ IsOdd(m)) THEN [ m |-> BigAdd(m, << 1 >>), e |-> e ]
  ELSE [ m |-> m, e |-> e ]

\* float64(x) of an integer x
Float64Of(x) == round53(x, 0, FALSE, FALSE)

\* a * b
Float64Mul(a, b) == round53(BigMul(a.m, b.m), a.e + b.e, FALSE, FALSE)

\* the quotient a / b from the division of a.m * 2^120 by b.m, a quotient of
\* more than 64 bits whose remainder says whether the division is exact
Float64Quo(a, b, qr) == round53(qr.q, a.e - b.e - 120, FALSE, qr.r # << >>)

\* a / b
Float64Div(a, b) == Float64Quo(a, b, BigDivMod(Shl(a.m, 120), b.m))

RECURSIVE Trunc(_, _)
\* the integer part of m * 2^e
Trunc(m, e) ==
  IF m = << >> THEN << >>
  ELSE IF e >= 0 THEN Shl(m, e)
  ELSE IF e <= -20 THEN Trunc(DivSmall(m, 1048576), e + 20)
  ELSE Trunc(Halve(m), e + 1)

\* uint64(x) of a float64 x below 2^64: the fraction is dropped
Uint64Of(x) == Trunc(x.m, x.e)

(***************************************************************************)
(* Type coercion: the Set methods of the flag package's values, which      *)
(* addToFlagSet selects by the field's type.  A result is                  *)
(* [ok |-> TRUE, val |-> v] or [ok |-> FALSE, cause |-> c, val |-> v],     *)
(* cause being the text the flag package puts after "invalid value ... for *)
(* flag -x: ".  The Set methods store the value strconv returned even when *)
(* it returned an error (zero on a syntax error, the nearest bound on a    *)
(* range error): val is that value.                                        *)
(***************************************************************************)

Ok(v) == [ ok |-> TRUE, val |-> v ]

Fail(c, v) == [ ok |-> FALSE, cause |-> c, val |-> v ]

errParse == "parse error"

errRange == "value out of range"

\* a signed integer value; there is no negative zero
IntVal(neg, mag) == [ neg |-> neg /\ mag # << >>, mag |-> mag ]

RECURSIVE underscoreScan(_, _, _)
\* the loop of strconv.underscoreOK; st is its variable i: "^", "0", "_" or "!"
underscoreScan(s, hex, st) ==
  IF s = << >> THEN st # "_"
  ELSE LET c == s[1]
       IN IF IsDigit(c) \/ (hex /\ DigitVal(c) \in 10..15)
          THEN underscoreScan(Tail(s), hex, "0")
          ELSE IF c = "_"
               THEN st = "0" /\ underscoreScan(Tail(s), hex, "_")
               ELSE st # "_" /\ underscoreScan(Tail(s), hex, "!")

\* strconv.underscoreOK: underscores only between digits or after a base prefix
underscoreOK(s0) ==
  LET s == IF s0 # << >> /\ s0[1] \in { "-", "+" } THEN Tail(s0) ELSE s0
      prefixed == Len(s) >= 2 /\ s[1] = "0" /\ ToLowerChar(s[2]) \in { "b", "o", "x" }
  IN IF prefixed
     THEN underscoreScan(Drop(s, 2), ToLowerChar(s[2]) = "x", "0")
     ELSE underscoreScan(s, FALSE, "^")

RECURSIVE uintDigits(_, _, _)
\* the digit loop of strconv.ParseUint with base 0 and 64 bits (int and uint
\* are 64 bits wide on the builds the package is tested on): n is the value so far
uintDigits(s, base, n) ==
  IF s = << >> THEN Ok(n)
  ELSE LET c == s[1]
           d == DigitVal(c)
           n1 == MulAdd(n, base, IF d = 99 THEN 0 ELSE d)
       IN IF c = "_" THEN uintDigits(Tail(s), base, n)
          ELSE IF d = 99 \/ d >= base THEN Fail(errParse, << >>)
          ELSE IF ~BigLess(n1, Two64) THEN Fail(errRange, MaxUint64)
          ELSE uintDigits(Tail(s), base, n1)

\* strconv.ParseUint(s, 0, 64): the magnitude as digits
ParseUint(s) ==
  IF s = << >> THEN Fail(errParse, << >>)
  ELSE LET long == Len(s) >= 3
           p == IF Len(s) >= 2 THEN ToLowerChar(s[2]) ELSE ""
           base == IF s[1] # "0" THEN 10
                   ELSE IF long /\ p = "b" THEN 2
                   ELSE IF long /\ p = "x" THEN 16
                   ELSE 8
           rest == IF s[1] # "0" THEN s
                   ELSE IF long /\ p \in { "b", "o", "x" } THEN Drop(s, 2)
                   ELSE Tail(s)
           r == uintDigits(rest, base, << >>)
       IN IF r.ok /\ "_" \in Range(s) /\ ~underscoreOK(s) THEN Fail(errParse, << >>)
          ELSE r

\* strconv.ParseInt(s, 0, 64)
ParseInt(s) ==
  IF s = << >> THEN Fail(errParse, IntVal(FALSE, << >>))
  ELSE LET neg == s[1] = "-"
           body == IF s[1] \in { "+", "-" } THEN Tail(s) ELSE s
           un == ParseUint(body)
           cutoff == Two63
       IN IF ~un.ok /\ un.cause # errRange THEN Fail(errParse, IntVal(FALSE, << >>))
          ELSE IF ~neg /\ ~BigLess(un.val, cutoff) THEN Fail(errRange, IntVal(FALSE, MaxInt64))
          ELSE IF neg /\ BigLess(cutoff, un.val) THEN Fail(errRange, IntVal(TRUE, cutoff))
          ELSE Ok(IntVal(neg, un.val))

\* uintValue.Set / uint64Value.Set: an unsigned value has no sign
SetUint(s) ==
  LET r == ParseUint(s)
  IN IF r.ok THEN Ok(IntVal(FALSE, r.val)) ELSE Fail(r.cause, IntVal(FALSE, r.val))

\* intValue.Set / int64Value.Set
SetInt(s) == ParseInt(s)

\* strconv.ParseBool, as boolValue.Set calls it
SetBool(s) ==
  IF s \in { << "1" >>, << "t" >>, << "T" >>, << "t", "r", "u", "e" >>,
             << "T", "R", "U", "E" >>, << "T", "r", "u", "e" >> }
  THEN Ok(TRUE)
  ELSE IF s \in { << "0" >>, << "f" >>, << "F" >>, << "f", "a", "l", "s", "e" >>,
                  << "F", "A", "L", "S", "E" >>, << "F", "a", "l", "s", "e" >> }
       THEN Ok(FALSE)
       ELSE Fail(errParse, FALSE)

\* stringValue.Set
SetString(s) == Ok(s)

\* reverseVal.UnmarshalText of the tests: the text-codec stores the text with
\* its bytes in the reverse order
UnmarshalText(s) == Ok(FromBytes(Reverse(ToBytes(s))))

(***************************************************************************)
(* time.ParseDuration, as durationValue.Set calls it: a Duration is a      *)
(* signed count of nanoseconds.  A character of the literal is one element *)
(* of the sequence, the micro sign U+00B5 and the Greek mu U+03BC too.     *)
(***************************************************************************)

\* the factors of a unit's length in nanoseconds (time.unitMap)
unitFactors(u) ==
  CASE u = << "n", "s" >> -> << >>
    [] u \in { << "u", "s" >>, << "µ", "s" >>, << "μ", "s" >> } -> << 1000 >>
    [] u = << "m", "s" >> -> << 1000, 1000 >>
    [] u = << "s" >> -> << 1000, 1000, 1000 >>
    [] u = << "m" >> -> << 60, 1000, 1000, 1000 >>
    [] u = << "h" >> -> << 60, 60, 1000, 1000, 1000 >>
    [] OTHER -> << 0 >>

RECURSIVE MulFactors(_, _)
MulFactors(d, fs) ==
  IF fs = << >> THEN d ELSE MulFactors(MulAdd(d, fs[1], 0), Tail(fs))

\* the number of leading characters of s that are decimal digits
digitRun(s) ==
  IF \A i \in 1..Len(s) : IsDigit(s[i]) THEN Len(s)
  ELSE (CHOOSE i \in 1..Len(s) :
          ~IsDigit(s[i]) /\ \A j \in 1..(i - 1) : IsDigit(s[j])) - 1

\* the number of leading characters of s that are neither a digit nor "."
RECURSIVE unitRun(_)
unitRun(s) ==
  IF s # << >> /\ ~IsDigit(s[1]) /\ s[1] # "." THEN 1 + unitRun(Tail(s)) ELSE 0

\* the values of the digits of s
digitsOf(s) == [ i \in 1..Len(s) |-> DigitVal(s[i]) ]

\* x <= 2^63
AtMost63(x) == ~BigLess(Two63, x)

RECURSIVE fractionDigits(_, _)
\* time.leadingFraction: the digits accumulated (leading zeros included, each
\* one scales by ten) until the accumulator would pass 2^63; the rest is ignored
fractionDigits(s, x) ==
  IF s = << >> THEN x
  ELSE LET y == x \o << DigitVal(s[1]) >>
       IN IF AtMost63(StripZeros(y)) THEN fractionDigits(Tail(s), y) ELSE x

RECURSIVE timesTen(_, _)
\* scale *= 10, k times, the first half of the times before the second
timesTen(scale, k) ==
  IF k = 0 \/ scale.m = << >> THEN scale
  ELSE IF k = 1 THEN Float64Mul(scale, [ m |-> << 1, 0 >>, e |-> 0 ])
  ELSE timesTen(timesTen(scale, k \div 2), k - k \div 2)

\* scale of time.leadingFraction after k digits: 1 multiplied k times by 10,
\* in float64
pow10(k) == timesTen([ m |-> << 1 >>, e |-> 0 ], k)

\* uint64(float64(f) * (float64(unit) / scale)), the nanoseconds of the
\* fraction f / 10^k of a unit
fractionOf(f, unit, k) ==
  IF f = << >> THEN << >>
  ELSE Uint64Of(Float64Mul(Float64Of(f), Float64Div(Float64Of(unit), pow10(k))))

\* a sum of uint64 wraps at 2^64
wrap64(wide) == IF BigLess(wide, Two64) THEN wide ELSE BigSub(wide, Two64)

RECURSIVE durationParts(_, _)

\* d += v, and the test of d against 2^63 after it
durationAdd(rest, sum, total) ==
  IF ~AtMost63(sum) \/ ~AtMost63(total) THEN Fail(errParse, << >>)
  ELSE durationParts(rest, total)

\* the group's value v, whole units and fraction, is added to the sum d
durationSum(rest, d, sum) == durationAdd(rest, sum, wrap64(BigAdd(d, sum)))

\* the loop of time.ParseDuration over the [0-9]*(\.[0-9]*)?[a-z]+ groups;
\* d is the sum so far, a uint64: the sum of d and a group wraps at 2^64
durationParts(s, d) ==
  IF s = << >> THEN Ok(d)
  ELSE IF ~(s[1] = "." \/ IsDigit(s[1])) THEN Fail(errParse, << >>)
  ELSE LET nInt == digitRun(s)
           v == StripZeros(digitsOf(Take(s, nInt)))
           s1 == Drop(s, nInt)
           hasDot == s1 # << >> /\ s1[1] = "."
           s2 == IF hasDot THEN Tail(s1) ELSE s1
           nFrac == IF hasDot THEN digitRun(s2) ELSE 0
           kept == IF hasDot THEN fractionDigits(Take(s2, nFrac), << >>) ELSE << >>
           s3 == Drop(s2, nFrac)
           nUnit == unitRun(s3)
           u == Take(s3, nUnit)
           fs == unitFactors(u)
           whole == MulFactors(v, fs)
       IN IF ~AtMost63(v) THEN Fail(errParse, << >>)
          ELSE IF nInt = 0 /\ nFrac = 0 THEN Fail(errParse, << >>)
          ELSE IF nUnit = 0 THEN Fail(errParse, << >>)
          ELSE IF fs = << 0 >> THEN Fail(errParse, << >>)
          ELSE IF ~AtMost63(whole) THEN Fail(errParse, << >>)
          ELSE durationSum(Drop(s3, nUnit), d,
                           BigAdd(whole, fractionOf(StripZeros(kept),
                                                    MulFactors(<< 1 >>, fs), Len(kept))))

\* durationValue.Set: every failure of time.ParseDuration is a parse error
SetDuration(s0) ==
  LET signed == s0 # << >> /\ s0[1] \in { "-", "+" }
      neg == signed /\ s0[1] = "-"
      s == IF signed THEN Tail(s0) ELSE s0
      r == durationParts(s, << >>)
  IN IF s = << "0" >> THEN Ok(IntVal(FALSE, << >>))
     ELSE IF s = << >> THEN Fail(errParse, IntVal(FALSE, << >>))
     ELSE IF ~r.ok THEN Fail(errParse, IntVal(FALSE, << >>))
     ELSE IF ~neg /\ ~BigLess(r.val, Two63) THEN Fail(errParse, IntVal(FALSE, << >>))
     ELSE Ok(IntVal(neg, r.val))

(***************************************************************************)
(* strconv.ParseFloat, as float64Value.Set and env.Parse call it.  A value *)
(* is the exact decimal mag * 10^exp (mag without leading or trailing      *)
(* zeros), an infinity or NaN.  A literal, decimal or hexadecimal          *)
(* ("0x1.8p1"),                                                            *)
(* gives the float64 nearest to it, a tie the one of even mantissa, in     *)
(* full: "0.1" gives 0.1000000000000000055511151231257827...; with a       *)
(* bitSize of 32 it gives the float32 nearest to it.                       *)
(***************************************************************************)

\* the digits d without the trailing zeros
StripTrailingZeros(d) ==
  IF \A i \in 1..Len(d) : d[i] = 0 THEN << >>
  ELSE Take(d, CHOOSE i \in 1..Len(d) :
                 d[i] # 0 /\ \A j \in (i + 1)..Len(d) : d[j] = 0)

FloatVal(neg, digits, exp) ==
  LET lead == StripZeros(digits)
      mag == StripTrailingZeros(lead)
  IN IF mag = << >>
     THEN [ float |-> "num", neg |-> FALSE, mag |-> << >>, exp |-> 0 ]
     ELSE [ float |-> "num", neg |-> neg, mag |-> mag,
            exp |-> exp + (Len(lead) - Len(mag)) ]

FloatInf(neg) == [ float |-> "inf", neg |-> neg, mag |-> << >>, exp |-> 0 ]

FloatNaN == [ float |-> "nan", neg |-> FALSE, mag |-> << >>, exp |-> 0 ]

ToLower(s) == [ i \in 1..Len(s) |-> ToLowerChar(s[i]) ]

RECURSIVE expValue(_, _)
\* the exponent loop of strconv.readFloat: no more digits are added from 10000
expValue(s, e) ==
  IF s = << >> THEN e
  ELSE expValue(Tail(s), IF e < 10000 THEN e * 10 + DigitVal(s[1]) ELSE e)

\* a step of the multiplication of digits by a small natural: t is the
\* product of the next digit, with the carry
MulStep(st, t) == [ ds |-> << t % 10 >> \o st.ds, c |-> t \div 10 ]

RECURSIVE MulDigits(_, _, _, _)
\* the n last digits of x * d, and the carry, from a state st that has the
\* digits made so far: the first half of the digits left, then the second
MulDigits(x, d, st, n) ==
  IF Len(st.ds) >= n THEN st
  ELSE IF Len(st.ds) + 1 = n
       THEN MulStep(st, x[Len(x) - Len(st.ds)] * d + st.c)
  ELSE MulDigits(x, d, MulDigits(x, d, st, (Len(st.ds) + n) \div 2), n)

MulJoin(st) == BigOf(st.c) \o st.ds

\* x * d for a natural d below 2^27, of an x of any length
MulSmall(x, d) == MulJoin(MulDigits(x, d, [ ds |-> << >>, c |-> 0 ], Len(x)))

RECURSIVE TimesPow(_, _, _)
\* x * b^k, for b of 2 or 5: half of the factors, then the other half
TimesPow(x, b, k) ==
  IF k = 0 \/ x = << >> THEN x
  ELSE IF k <= 11 THEN MulSmall(x, b ^ k)
  ELSE TimesPow(TimesPow(x, b, k \div 2), b, k - k \div 2)

RECURSIVE LowestTerms(_, _)
\* m * 2^k for a negative k, without the factors of two that m and 2^-k
\* share: 20, 4 and 1 of them at a time
LowestTerms(m, k) ==
  IF m = << >> \/ k >= 0 THEN [ m |-> m, k |-> k ]
  ELSE IF k <= -20 /\ ModSmall(m, 1048576) = 0
  THEN LowestTerms(DivSmall(m, 1048576), k + 20)
  ELSE IF k <= -4 /\ ModSmall(m, 16) = 0 THEN LowestTerms(DivSmall(m, 16), k + 4)
  ELSE IF ~IsOdd(m) THEN LowestTerms(DivSmall(m, 2), k + 1)
  ELSE [ m |-> m, k |-> k ]

\* m * 2^k as a decimal, k negative or zero: m * 5^-k * 10^k
ExactBelow(neg, x) == FloatVal(neg, TimesPow(x.m, 5, 0 - x.k), x.k)

\* the float64 m * 2^k as a decimal
Exact(neg, m, k) ==
  IF k >= 0 THEN FloatVal(neg, TimesPow(m, 2, k), 0)
  ELSE ExactBelow(neg, LowestTerms(m, k))

\* strconv's float64info and float32info: the bits of the mantissa and of
\* the exponent, and the bias of the exponent
float64info == [ mantbits |-> 52, expbits |-> 11, bias |-> -1023 ]

float32info == [ mantbits |-> 23, expbits |-> 8, bias |-> -127 ]

\* the powers of 2 that the conversion compares a mantissa with, the largest
\* being 1 << (mantbits + 23) for a float64
Powers2 == [ n \in 0..(float64info.mantbits + 23) |-> TimesPow(<< 1 >>, 2, n) ]

\* 1 << n
Pow2(n) == Powers2[n]

\* mantissa = mantissa>>1 | mantissa&1, done as many times as d has factors
\* of 2, d being a power of 2: a bit shifted out stays in the lowest bit
StickyBy(m, d) ==
  IF ModSmall(m, d) # 0 /\ ~IsOdd(DivSmall(m, d)) THEN BigAdd(DivSmall(m, d), << 1 >>)
  ELSE DivSmall(m, d)

StickyHalve(m) == StickyBy(m, 2)

RECURSIVE StickyShift(_, _)
\* mantissa = mantissa>>1 | mantissa&1, n times
StickyShift(m, n) ==
  IF n = 0 THEN m
  ELSE IF n >= 20 THEN StickyShift(StickyBy(m, 1048576), n - 20)
  ELSE StickyBy(m, 2 ^ n)

RECURSIVE hexShiftUp(_, _)
\* strconv.atofHex: the mantissa is shifted left until it has mantbits + 3
\* bits, by 20 bits and by 4 bits at a time while that many shifts are due
hexShiftUp(flt, x) ==
  IF x.m = << >> \/ ~BigLess(x.m, Pow2(flt.mantbits + 2)) THEN x
  ELSE IF BigLess(x.m, Pow2(flt.mantbits - 18))
  THEN hexShiftUp(flt, [ m |-> MulAdd(x.m, 1048576, 0), e |-> x.e - 20 ])
  ELSE IF BigLess(x.m, Pow2(flt.mantbits - 2))
  THEN hexShiftUp(flt, [ m |-> MulAdd(x.m, 16, 0), e |-> x.e - 4 ])
  ELSE hexShiftUp(flt, [ m |-> MulAdd(x.m, 2, 0), e |-> x.e - 1 ])

\* digits of the literal were dropped: mantissa |= 1
hexTrunc(x, trunc) ==
  IF trunc /\ ~IsOdd(x.m) THEN [ x EXCEPT !.m = BigAdd(@, << 1 >>) ] ELSE x

RECURSIVE hexShiftDown(_, _)
\* a mantissa of more than mantbits + 3 bits is shifted right, by 20 bits
\* and by 4 bits at a time while that many shifts are due
hexShiftDown(flt, x) ==
  IF ~BigLess(x.m, Pow2(flt.mantbits + 23))
  THEN hexShiftDown(flt, [ m |-> StickyBy(x.m, 1048576), e |-> x.e + 20 ])
  ELSE IF ~BigLess(x.m, Pow2(flt.mantbits + 7))
  THEN hexShiftDown(flt, [ m |-> StickyBy(x.m, 16), e |-> x.e + 4 ])
  ELSE IF ~BigLess(x.m, Pow2(flt.mantbits + 3))
  THEN hexShiftDown(flt, [ m |-> StickyHalve(x.m), e |-> x.e + 1 ])
  ELSE x

\* an exponent below minExp - 2, minExp = bias + 1 being that of the
\* smallest normal number: the mantissa, of mantbits + 3 bits, is shifted
\* right until the exponent is that one or one bit is left, which
\* mantbits + 2 shifts leave
hexDenormalize(flt, x) ==
  IF BigLess(<< 1 >>, x.m) /\ x.e < flt.bias - 1
  THEN IF x.e < flt.bias - 1 - (flt.mantbits + 2)
       THEN [ m |-> StickyShift(x.m, flt.mantbits + 2), e |-> x.e + flt.mantbits + 2 ]
       ELSE [ m |-> StickyShift(x.m, flt.bias - 1 - x.e), e |-> flt.bias - 1 ]
  ELSE x

\* the two lowest bits are rounded away, a half to the even mantissa
hexRound(flt, x) ==
  LET q == DivSmall(x.m, 4)
      up == ModSmall(x.m, 4) = 3 \/ (ModSmall(x.m, 4) = 2 /\ IsOdd(q))
  IN IF ~up THEN [ m |-> q, e |-> x.e + 2 ]
     ELSE IF BigAdd(q, << 1 >>) = Pow2(flt.mantbits + 1)
     THEN [ m |-> Pow2(flt.mantbits), e |-> x.e + 3 ]
     ELSE [ m |-> BigAdd(q, << 1 >>), e |-> x.e + 2 ]

\* the float of the rounded mantissa: a denormal or zero below
\* 1 << mantbits, an infinity and a range error above the largest exponent,
\* maxExp = 1 << expbits + bias - 2
hexValue(flt, neg, x) ==
  IF BigLess(x.m, Pow2(flt.mantbits))
  THEN Ok(Exact(neg, x.m, flt.bias + 1 - flt.mantbits))
  ELSE IF x.e > 2 ^ flt.expbits + flt.bias - 2 THEN Fail(errRange, FloatInf(neg))
  ELSE Ok(Exact(neg, x.m, x.e - flt.mantbits))

\* strconv.atofHex: the float of the format flt nearest to mantissa * 2^exp,
\* trunc telling that the mantissa lost digits that were not zero
atofHex(flt, mantissa, exp, neg, trunc) ==
  hexValue(flt, neg, hexRound(flt, hexDenormalize(flt, hexShiftDown(flt,
    hexTrunc(hexShiftUp(flt, [ m |-> mantissa, e |-> exp + flt.mantbits ]),
             trunc)))))

\* a lower bound of the binary logarithm of 10^a: 3.32 < log2(10) < 3.33
log2Pow10(a) ==
  IF a >= 0 THEN (a * 332) \div 100 ELSE 0 - (((0 - a) * 333 + 99) \div 100)

\* d * 10^e10 / 2^s as y * 10^k: the division by 2^s is a multiplication by
\* 5^s and a shift of the decimal point
decimalScale(d, e10, s) ==
  IF s >= 0 THEN [ y |-> TimesPow(d, 5, s), k |-> e10 - s ]
  ELSE [ y |-> TimesPow(d, 2, 0 - s), k |-> e10 ]

\* the integer part of y * 10^k
decimalFloor(x) ==
  IF x.k >= 0 THEN x.y \o [ i \in 1..x.k |-> 0 ] ELSE Take(x.y, Len(x.y) + x.k)

\* y * 10^k has a fraction
decimalInexact(x) ==
  x.k < 0 /\ \E i \in (Len(x.y) + x.k + 1)..Len(x.y) : x.y[i] # 0

\* the float nearest to x * 2^s, x of mantbits + 4 bits or more before its
\* point
decimalRound(flt, neg, x, s) ==
  atofHex(flt, decimalFloor(x), s, neg, decimalInexact(x))

\* the conversion of strconv.atof64 and atof32 for a decimal d * 10^e10, d
\* not zero, that is neither above every float nor below every one: the
\* float of the format nearest to it, a tie to the even mantissa; the
\* decimal is scaled by a power of 2 that leaves mantbits + 4 to
\* mantbits + 11 bits before the point, the bits after it count as digits
\* lost
floatBits(flt, neg, d, e10) ==
  decimalRound(flt, neg,
               decimalScale(d, e10, log2Pow10(Len(d) + e10 - 1) - (flt.mantbits + 3)),
               log2Pow10(Len(d) + e10 - 1) - (flt.mantbits + 3))

RECURSIVE hexScan(_, _)
\* the loop of strconv.readFloat over a hexadecimal mantissa: leading zeros
\* are not counted, the mantissa takes 16 digits, rest is what the loop
\* leaves
hexScan(s, st) ==
  IF s = << >> THEN [ st EXCEPT !.rest = s ]
  ELSE IF s[1] = "."
  THEN IF st.sawdot THEN [ st EXCEPT !.rest = s ]
       ELSE hexScan(Tail(s), [ st EXCEPT !.sawdot = TRUE, !.dp = st.nd ])
  ELSE IF DigitVal(s[1]) > 15 THEN [ st EXCEPT !.rest = s ]
  ELSE IF s[1] = "0" /\ st.nd = 0
  THEN hexScan(Tail(s), [ st EXCEPT !.sawdigits = TRUE, !.dp = @ - 1 ])
  ELSE IF st.ndMant < 16
  THEN hexScan(Tail(s), [ st EXCEPT !.sawdigits = TRUE, !.nd = @ + 1,
                                    !.ndMant = @ + 1,
                                    !.mant = MulAdd(@, 16, DigitVal(s[1])) ])
  ELSE hexScan(Tail(s), [ st EXCEPT !.sawdigits = TRUE, !.nd = @ + 1,
                                    !.trunc = @ \/ s[1] # "0" ])

\* the exponent of a hexadecimal literal, which it must have: "p", a sign or
\* none, a digit or more
hexExponent(flt, neg, st, s4, s5) ==
  IF ~st.sawdigits THEN Fail(errParse, FloatVal(FALSE, << >>, 0))
  ELSE IF st.rest = << >> \/ ToLowerChar(st.rest[1]) # "p"
  THEN Fail(errParse, FloatVal(FALSE, << >>, 0))
  ELSE IF s5 = << >> \/ digitRun(s5) # Len(s5)
  THEN Fail(errParse, FloatVal(FALSE, << >>, 0))
  ELSE atofHex(flt, st.mant,
               IF st.mant = << >> THEN 0
               ELSE 4 * (IF st.sawdot THEN st.dp ELSE st.nd)
                      + (IF s4[1] = "-" THEN 0 - expValue(s5, 0) ELSE expValue(s5, 0))
                      - 4 * st.ndMant,
               neg, st.trunc)

\* strconv.readFloat and atofHex for a literal that begins with "0x" after
\* its sign: s is what follows the prefix
hexFloat(flt, neg, st) ==
  hexExponent(flt, neg, st, Tail(st.rest),
              IF Len(st.rest) >= 2 /\ st.rest[2] \in { "-", "+" }
              THEN Drop(st.rest, 2) ELSE Tail(st.rest))

\* strconv.atof64 and atof32, flt being the format: the special values,
\* then readFloat and the conversion of the base
atof(flt, s0) ==
  LET signed == s0 # << >> /\ s0[1] \in { "-", "+" }
      neg == signed /\ s0[1] = "-"
      s == IF signed THEN Tail(s0) ELSE s0
      low == ToLower(s)
      nInt == digitRun(s)
      s1 == Drop(s, nInt)
      hasDot == s1 # << >> /\ s1[1] = "."
      s2 == IF hasDot THEN Tail(s1) ELSE s1
      nFrac == IF hasDot THEN digitRun(s2) ELSE 0
      s3 == Drop(s2, nFrac)
      hasExp == s3 # << >> /\ ToLowerChar(s3[1]) = "e"
      s4 == IF hasExp THEN Tail(s3) ELSE s3
      expSigned == hasExp /\ s4 # << >> /\ s4[1] \in { "-", "+" }
      expNeg == expSigned /\ s4[1] = "-"
      s5 == IF expSigned THEN Tail(s4) ELSE s4
      nExp == IF hasExp THEN digitRun(s5) ELSE 0
      e == expValue(Take(s5, nExp), 0)
      digits == digitsOf(Take(s, nInt)) \o digitsOf(Take(s2, nFrac))
      v == FloatVal(neg, digits, (IF expNeg THEN 0 - e ELSE e) - nFrac)
      top == Len(v.mag) + v.exp
  IN IF low \in { << "i", "n", "f" >>, << "i", "n", "f", "i", "n", "i", "t", "y" >> }
     THEN Ok(FloatInf(neg))
     ELSE IF low = << "n", "a", "n" >> /\ ~signed THEN Ok(FloatNaN)
     ELSE IF Len(s) >= 3 /\ s[1] = "0" /\ low[2] = "x"
     THEN hexFloat(flt, neg,
                   hexScan(Drop(s, 2),
                           [ mant |-> << >>, nd |-> 0, ndMant |-> 0, dp |-> 0,
                             sawdot |-> FALSE, sawdigits |-> FALSE,
                             trunc |-> FALSE, rest |-> << >> ]))
     ELSE IF nInt = 0 /\ nFrac = 0 THEN Fail(errParse, FloatVal(FALSE, << >>, 0))
     ELSE IF hasExp /\ nExp = 0 THEN Fail(errParse, FloatVal(FALSE, << >>, 0))
     ELSE IF Drop(s5, nExp) # << >> THEN Fail(errParse, FloatVal(FALSE, << >>, 0))
     ELSE IF v.mag = << >> THEN Ok(v)
     ELSE IF top > 310 THEN Fail(errRange, FloatInf(neg))
     ELSE IF top < -330 THEN Ok(FloatVal(FALSE, << >>, 0))
     ELSE floatBits(flt, neg, v.mag, v.exp)

\* strconv.ParseFloat(s0, bitSize): strconv.readFloat skips the "_" of the
\* mantissa and of the exponent, and the literal is a syntax error unless
\* underscoreOK accepts them; with a bitSize of 32 the value is a float32,
\* returned as the float64 equal to it
ParseFloat(s0, bitSize) ==
  IF "_" \in Range(s0) /\ ~underscoreOK(s0)
  THEN Fail(errParse, FloatVal(FALSE, << >>, 0))
  ELSE atof(IF bitSize = 32 THEN float32info ELSE float64info,
            SelectSeq(s0, LAMBDA c : c # "_"))

\* float64Value.Set
SetFloat(s0) == ParseFloat(s0, 64)

(***************************************************************************)
(* Types and target structures.  A type carries what the parser asks of    *)
(* reflect: its kind, whether it is time.Duration, and whether the value   *)
(* ("value") or only a pointer to it ("pointer") implements both           *)
(* encoding.TextMarshaler and encoding.TextUnmarshaler.                    *)
(***************************************************************************)

Basic(k) == [ kind |-> k, duration |-> FALSE, texter |-> "none" ]

\* time.Duration: an int64 that reflect.TypeOf identifies as durationType
DurationT == [ kind |-> "int64", duration |-> TRUE, texter |-> "none" ]

\* reverseVal of the tests: a string type, UnmarshalText is on the pointer
ReverseValT == [ kind |-> "string", duration |-> FALSE, texter |-> "pointer" ]

\* *T: the method set of a pointer holds the methods of T and of *T, unless
\* T is a pointer itself, whose pointer has no method
PtrTo(t) ==
  [ kind |-> "ptr", duration |-> FALSE,
    texter |-> IF t.texter = "none" \/ t.kind = "ptr" THEN "none" ELSE "value",
    elem |-> t ]

SliceOf(t) == [ kind |-> "slice", duration |-> FALSE, texter |-> "none", elem |-> t ]

\* the fields of the test structure F, in declaration order
FieldsF ==
  << [ name |-> "S", tag |-> << "s", ",", "s", "t", "r", "i", "n", "g", ",", "l", "o", "n", "g", "-", "s", "t", "r", "i", "n", "g" >>,
       env |-> << >>, type |-> Basic("string") ],
     [ name |-> "I", tag |-> << "i", ",", "i", "n", "t" >>,
       env |-> << >>, type |-> Basic("int") ],
     [ name |-> "B", tag |-> << "b" >>,
       env |-> << >>, type |-> Basic("bool") ],
     [ name |-> "H", tag |-> << "h", ",", "h", "e", "l", "p" >>,
       env |-> << >>, type |-> Basic("bool") ],
     [ name |-> "T", tag |-> << "t" >>,
       env |-> << >>, type |-> DurationT ],
     [ name |-> "N", tag |-> << >>,
       env |-> << >>, type |-> Basic("int") ],
     [ name |-> "I64", tag |-> << "i", "6", "4" >>,
       env |-> << >>, type |-> Basic("int64") ],
     [ name |-> "U64", tag |-> << "u", "6", "4" >>,
       env |-> << >>, type |-> Basic("uint64") ],
     [ name |-> "F64", tag |-> << "f", "6", "4" >>,
       env |-> << >>, type |-> Basic("float64") ],
     [ name |-> "Spaced", tag |-> << ",", " ", "s", "p", " ", ",", " ", "s", "p", "a", "c", "e", "d", " " >>,
       env |-> << >>, type |-> Basic("string") ] >>

\* the fields of the test structure Fc
FieldsFc ==
  << [ name |-> "S", tag |-> << "s", "t", "r", "i", "n", "g", ",", "s" >>,
       env |-> << >>, type |-> Basic("string") ],
     [ name |-> "I", tag |-> << "i", "n", "t", ",", "i" >>,
       env |-> << >>, type |-> Basic("int") ],
     [ name |-> "B", tag |-> << "b" >>,
       env |-> << >>, type |-> Basic("bool") ] >>

\* the fields of the test structure E
FieldsE ==
  << [ name |-> "Addr", tag |-> << "a", "d", "d", "r" >>,
       env |-> << "A", "D", "D", "R" >>, type |-> Basic("string") ],
     [ name |-> "DB", tag |-> << "d", "b" >>,
       env |-> << "D", "B" >>, type |-> Basic("string") ],
     [ name |-> "Help", tag |-> << "h", ",", "h", "e", "l", "p" >>,
       env |-> << >>, type |-> Basic("bool") ],
     [ name |-> "Version", tag |-> << "v", ",", "v", "e", "r", "s", "i", "o", "n" >>,
       env |-> << >>, type |-> Basic("bool") ] >>

\* the fields of the test structure Fs
FieldsFs ==
  << [ name |-> "Ss", tag |-> << "s", ",", "s", "t", "r", "i", "n", "g" >>,
       env |-> << >>, type |-> SliceOf(Basic("string")) ],
     [ name |-> "Is", tag |-> << "i" >>,
       env |-> << >>, type |-> SliceOf(Basic("int")) ],
     [ name |-> "Us", tag |-> << "u" >>,
       env |-> << >>, type |-> SliceOf(Basic("uint64")) ],
     [ name |-> "Bs", tag |-> << "b" >>,
       env |-> << >>, type |-> SliceOf(Basic("bool")) ],
     [ name |-> "Fs", tag |-> << "f" >>,
       env |-> << >>, type |-> SliceOf(Basic("float64")) ],
     [ name |-> "Ts", tag |-> << "t" >>,
       env |-> << >>, type |-> SliceOf(DurationT) ],
     [ name |-> "Rs", tag |-> << "r", "e", "v" >>,
       env |-> << >>, type |-> SliceOf(ReverseValT) ],
     [ name |-> "Prs", tag |-> << "p", "r", "e", "v" >>,
       env |-> << >>, type |-> SliceOf(PtrTo(ReverseValT)) ] >>

\* a structure whose repeatable fields also read the environment,
\* Ss []string `flag:"s" env:"SS"` and Is []int `flag:"i" env:"IS"`, and that
\* has the methods SetFlags and SetFlagsCount
FieldsSeeded ==
  << [ name |-> "Ss", tag |-> << "s" >>, env |-> << "S", "S" >>,
       type |-> SliceOf(Basic("string")) ],
     [ name |-> "Is", tag |-> << "i" >>, env |-> << "I", "S" >>,
       type |-> SliceOf(Basic("int")) ] >>

\* the structure F of TestParseDuplicateFlagName: two fields declare "x"
FieldsDup ==
  << [ name |-> "X", tag |-> << "x" >>, env |-> << >>, type |-> Basic("bool") ],
     [ name |-> "Y", tag |-> << "x" >>, env |-> << >>, type |-> Basic("int") ] >>

\* the structure F of TestParseDuplicateAltFlagName: two fields declare "long-x"
FieldsDupAlt ==
  << [ name |-> "X", tag |-> << "x", ",", "l", "o", "n", "g", "-", "x" >>, env |-> << >>, type |-> Basic("bool") ],
     [ name |-> "Y", tag |-> << "y", ",", "l", "o", "n", "g", "-", "x" >>, env |-> << >>, type |-> Basic("bool") ] >>

\* a structure whose only field declares "x" twice: X bool `flag:"x,x"`
FieldsDupSelf ==
  << [ name |-> "X", tag |-> << "x", ",", "x" >>, env |-> << >>,
       type |-> Basic("bool") ] >>

\* a structure of two slices that declare "x": Xs []int `flag:"x"` and
\* Ys []string `flag:"y,x"`
FieldsDupSlice ==
  << [ name |-> "Xs", tag |-> << "x" >>, env |-> << >>,
       type |-> SliceOf(Basic("int")) ],
     [ name |-> "Ys", tag |-> << "y", ",", "x" >>, env |-> << >>,
       type |-> SliceOf(Basic("string")) ] >>

\* the structure F of TestParseUnsupportedFlagType: C *bool `flag:"c"`
FieldsUnsup ==
  << [ name |-> "C", tag |-> << "c" >>, env |-> << >>,
       type |-> PtrTo(Basic("bool")) ] >>

\* a structure with a slice of an unsupported element type after a supported
\* field: B bool `flag:"b"` and Cs []int32 `flag:"c"`
FieldsUnsupSlice ==
  << [ name |-> "B", tag |-> << "b" >>, env |-> << >>, type |-> Basic("bool") ],
     [ name |-> "Cs", tag |-> << "c" >>, env |-> << >>,
       type |-> SliceOf(Basic("int32")) ] >>

\* structures whose flag names the flag package refuses:
\* X bool `flag:"x,-y"` and X string `flag:"a=b"`
FieldsDash ==
  << [ name |-> "X", tag |-> << "x", ",", "-", "y" >>, env |-> << >>,
       type |-> Basic("bool") ] >>

FieldsEq ==
  << [ name |-> "X", tag |-> << "a", "=", "b" >>, env |-> << >>,
       type |-> Basic("string") ] >>

\* a structure with a pointer to a type that has the text codec, and the
\* methods SetFlags and SetFlagsCount: R *reverseVal `flag:"r" env:"R"`
FieldsPtrText ==
  << [ name |-> "R", tag |-> << "r" >>, env |-> << "R" >>,
       type |-> PtrTo(ReverseValT) ] >>

\* a structure with a slice of pointers to a basic type, which binds, and
\* the method SetFlagsCount: Bs []*bool `flag:"b"`
FieldsPtrElems ==
  << [ name |-> "Bs", tag |-> << "b" >>, env |-> << >>,
       type |-> SliceOf(PtrTo(Basic("bool"))) ] >>

\* a command structure that reads its environment and implements every
\* optional method: Addr string `flag:"addr" env:"ADDR"`,
\* Port int `flag:"p,port" env:"PORT"` and Help bool `flag:"h,help"`
FieldsCmd ==
  << [ name |-> "Addr", tag |-> << "a", "d", "d", "r" >>,
       env |-> << "A", "D", "D", "R" >>, type |-> Basic("string") ],
     [ name |-> "Port", tag |-> << "p", ",", "p", "o", "r", "t" >>,
       env |-> << "P", "O", "R", "T" >>, type |-> Basic("int") ],
     [ name |-> "Help", tag |-> << "h", ",", "h", "e", "l", "p" >>,
       env |-> << >>, type |-> Basic("bool") ] >>

\* the target structures: their fields and the optional methods they
\* implement; "int" is the value i of TestParseNotStructPointer and "*int" a
\* pointer to such a value, neither of which is a pointer to a structure
Targets ==
  { "F", "Fc", "E", "Fs", "Dup", "DupAlt", "DupSelf", "DupSlice", "Unsup",
    "UnsupSlice", "Dash", "Eq", "PtrText", "PtrElems", "Cmd", "noFlagSetArgs",
    "Seeded", "int", "*int" }

\* reflect.ValueOf(v).Elem() and NumField() accept the target
IsStructPointer(t) == t \notin { "int", "*int" }

Fields(t) ==
  CASE t = "F" -> FieldsF
    [] t = "Fc" -> FieldsFc
    [] t = "E" -> FieldsE
    [] t = "Fs" -> FieldsFs
    [] t = "Dup" -> FieldsDup
    [] t = "DupAlt" -> FieldsDupAlt
    [] t = "DupSelf" -> FieldsDupSelf
    [] t = "DupSlice" -> FieldsDupSlice
    [] t = "Unsup" -> FieldsUnsup
    [] t = "UnsupSlice" -> FieldsUnsupSlice
    [] t = "Dash" -> FieldsDash
    [] t = "Eq" -> FieldsEq
    [] t = "PtrText" -> FieldsPtrText
    [] t = "PtrElems" -> FieldsPtrElems
    [] t = "Cmd" -> FieldsCmd
    [] t = "Seeded" -> FieldsSeeded
    [] OTHER -> << >>

Methods(t) ==
  CASE t = "F" -> { "SetArgs", "SetFlags" }
    [] t = "Fc" -> { "SetFlagsCount" }
    [] t = "E" -> { "Validate" }
    [] t = "Fs" -> { "SetFlagsCount" }
    [] t = "Cmd" -> { "SetArgs", "SetFlags", "SetFlagsCount", "Validate" }
    [] t = "noFlagSetArgs" -> { "SetArgs" }
    [] t = "Seeded" -> { "SetFlags", "SetFlagsCount" }
    [] t = "PtrText" -> { "SetFlags", "SetFlagsCount" }
    [] t = "PtrElems" -> { "SetFlagsCount" }
    [] OTHER -> { }

FieldNames(t) == { Fields(t)[i].name : i \in 1..Len(Fields(t)) }

FieldOf(t, name) ==
  Fields(t)[CHOOSE i \in 1..Len(Fields(t)) : Fields(t)[i].name = name]

\* the zero value of a type
Zero(ty) ==
  CASE ty.duration -> IntVal(FALSE, << >>)
    [] ~ty.duration /\ ty.kind = "bool" -> FALSE
    [] ~ty.duration /\ ty.kind \in { "float32", "float64" } ->
         FloatVal(FALSE, << >>, 0)
    [] ~ty.duration /\ ty.kind \in { "int", "int8", "int16", "int32", "int64",
                                     "uint", "uint8", "uint16", "uint32", "uint64" } ->
         IntVal(FALSE, << >>)
    [] OTHER -> << >>

\* a pointer that reflect.New made, or that the caller put in a field, and
\* the value behind it
NewPointer(val) == [ pointee |-> val ]

\* var f T: every field at its zero value
ZeroStruct(t) == [ n \in FieldNames(t) |-> Zero(FieldOf(t, n).type) ]

(***************************************************************************)
(* The flag set built from the struct tags (parseFlags, the loop over the  *)
(* fields).                                                                *)
(***************************************************************************)

\* addToFlagSet: the flag value registered for a value of type ty, or
\* "unsupported" where it returns false
addToFlagSet(ty, canBeText) ==
  IF ty.duration THEN "duration"
  ELSE IF canBeText /\ ty.texter # "none" THEN "text"
  ELSE IF ty.kind \in { "bool", "string", "int", "int64", "uint", "uint64", "float64" }
       THEN ty.kind
       ELSE "unsupported"

\* createSliceElem: the type of the value reflect.New allocates for an element
createSliceElem(ty) == IF ty.kind = "ptr" THEN ty.elem ELSE ty

\* the Set method of the flag value addToFlagSet registered
Coerce(k, s) ==
  CASE k = "string" -> SetString(s)
    [] k = "bool" -> SetBool(s)
    [] k \in { "int", "int64" } -> SetInt(s)
    [] k \in { "uint", "uint64" } -> SetUint(s)
    [] k = "float64" -> SetFloat(s)
    [] k = "duration" -> SetDuration(s)
    [] k = "text" -> UnmarshalText(s)

\* a panic is the format of its message and what fills it in: the flag name
\* for "flag redefined: %s"; the kind, the field name and the type for
\* "unsupported flag field kind: %s (%s: %s)"
NoPanic == [ panic |-> "none", name |-> << >>, kind |-> "", field |-> "", type |-> "" ]

\* the panic of flag.FlagSet.Var for a name the flag set has
Redefined(nm) ==
  [ panic |-> "flag redefined: %s", name |-> nm, kind |-> "", field |-> "",
    type |-> "" ]

\* the panics of flag.FlagSet.Var for a name that begins with "-" or that
\* contains "="
BeginsWithDash(nm) ==
  [ panic |-> "flag %q begins with -", name |-> nm, kind |-> "", field |-> "",
    type |-> "" ]

ContainsEquals(nm) ==
  [ panic |-> "flag %q contains =", name |-> nm, kind |-> "", field |-> "",
    type |-> "" ]

\* the panics of parseFlags (flag.go, lines 177 and 207): for a slice the kind
\* is that of the element type
Unsupported(f) ==
  [ panic |-> "unsupported flag field kind: %s (%s: %s)", name |-> << >>,
    kind |-> IF f.type.kind = "slice" THEN f.type.elem.kind ELSE f.type.kind,
    field |-> f.name, type |-> f.type ]

\* the panic of reflect.Append (flag.go, line 200) for the value of a flag
\* bound to a slice of pointers to a type without the text codec: Get
\* returns the value, which is no pointer
NotAssignable(b) ==
  [ panic |-> "reflect.Set: value of type %s is not assignable to type %s",
    name |-> << >>, kind |-> b.coerce, field |-> b.field, type |-> "" ]

\* the panic of reflect for a target that is not a pointer to a structure
\* (flag.go, lines 135-137), and for a field that is a nil pointer to a type
\* with the text codec, which fs.TextVar dereferences (line 162)
ReflectPanic ==
  [ panic |-> "reflect: %s", name |-> << >>, kind |-> "", field |-> "", type |-> "" ]

\* the names of a field's tag: strings.Split(typ.Tag.Get("flag"), ",") without
\* the empty ones
TagNames(f) == SelectSeq(Split(f.tag, ","), LAMBDA nm : nm # << >>)

\* the last name of the tag
lastFlag(f) == TagNames(f)[Len(TagNames(f))]

\* the canonical name: the first name of the tag that is not empty
canonFlag(f) == TagNames(f)[1]

\* an empty flag set: formal maps a flag name to its binding, sliceFs holds the
\* names registered in the internal flag set of the slice elements, cells lists
\* the initial values of the element destinations allocated so far, counted
\* tells whether setupFlagsCount wrapped the flag values
EmptyFlagSet ==
  [ formal |-> << >>, sliceFs |-> { }, canonLookup |-> << >>, cells |-> << >>,
    counted |-> FALSE, panic |-> NoPanic ]

\* one iteration of the loop over a field's names (flag.go, lines 146-209),
\* val being the value of the field.  fs.TextVar panics in reflect for a nil
\* pointer: a field that is one, and the value createSliceElem allocates
\* for a slice of pointers to pointers.  The Var of the flag package panics
\* for a name that begins with "-" or contains "=", then for a name the
\* flag set has
Register(fs, f, nm, val) ==
  LET canon == (nm :> canonFlag(f)) @@ fs.canonLookup
      redefined == [ fs EXCEPT !.canonLookup = canon, !.panic = Redefined(nm) ]
      unsupported == [ fs EXCEPT !.canonLookup = canon, !.panic = Unsupported(f) ]
      elemTy == createSliceElem(f.type.elem)
      k == IF f.type.texter # "none" THEN "text"
           ELSE IF f.type.kind = "slice" THEN addToFlagSet(elemTy, TRUE)
           ELSE addToFlagSet(f.type, FALSE)
      isSlice == f.type.texter = "none" /\ f.type.kind = "slice"
      binding == [ field |-> f.name, coerce |-> k, slice |-> isSlice,
                   isBool |-> ~isSlice /\ k = "bool",
                   ptrElem |-> isSlice /\ f.type.elem.kind = "ptr",
                   ptr |-> ~isSlice /\ f.type.kind = "ptr",
                   cell |-> IF isSlice THEN Len(fs.cells) + 1 ELSE 0 ]
  IN IF \/ f.type.texter # "none" /\ f.type.kind = "ptr" /\ val = << >>
        \/ isSlice /\ k = "text" /\ elemTy.kind = "ptr"
     THEN [ fs EXCEPT !.canonLookup = canon, !.panic = ReflectPanic ]
     ELSE IF k = "unsupported" THEN unsupported
     ELSE IF HasPrefix(nm, << "-" >>)
     THEN [ fs EXCEPT !.canonLookup = canon, !.panic = BeginsWithDash(nm) ]
     ELSE IF "=" \in Range(nm)
     THEN [ fs EXCEPT !.canonLookup = canon, !.panic = ContainsEquals(nm) ]
     ELSE IF isSlice /\ nm \in fs.sliceFs THEN redefined
     ELSE IF nm \in DOMAIN fs.formal THEN redefined
     ELSE [ fs EXCEPT !.formal = (nm :> binding) @@ @,
                      !.sliceFs = IF isSlice THEN @ \cup { nm } ELSE @,
                      !.canonLookup = canon,
                      !.cells = IF isSlice THEN Append(@, Zero(elemTy)) ELSE @ ]

RECURSIVE RegisterNames(_, _, _, _)
RegisterNames(fs, f, names, val) ==
  IF names = << >> \/ fs.panic # NoPanic THEN fs
  ELSE RegisterNames(Register(fs, f, names[1], val), f, Tail(names), val)

RECURSIVE RegisterFields(_, _, _)
\* the loop over the fields (flag.go, lines 140-210), vv being their values;
\* a panic ends it
RegisterFields(fs, fields, vv) ==
  IF fields = << >> \/ fs.panic # NoPanic THEN fs
  ELSE RegisterFields(RegisterNames(fs, fields[1], TagNames(fields[1]),
                                    vv[fields[1].name]),
                      Tail(fields), vv)

\* the flag set of a target whose fields hold vv: reflect panics unless the
\* target is a pointer to a structure (flag.go, lines 135-137)
NewFlagSet(t, vv) ==
  IF IsStructPointer(t) THEN RegisterFields(EmptyFlagSet, Fields(t), vv)
  ELSE [ EmptyFlagSet EXCEPT !.panic = ReflectPanic ]

(***************************************************************************)
(* Errors.  An error is the format of its message and what fills it in.    *)
(***************************************************************************)

NoError == [ fmt |-> "", name |-> << >>, value |-> << >>, cause |-> "" ]

\* f.failf("flag provided but not defined: -%s", name), and the two
\* errors.New of parseFlags that spell the same message for h and help
NotDefined(name) ==
  [ fmt |-> "flag provided but not defined: -%s", name |-> name, value |-> << >>,
    cause |-> "" ]

\* flag.ErrHelp
ErrHelp ==
  [ fmt |-> "flag: help requested", name |-> << >>, value |-> << >>, cause |-> "" ]

BadSyntax(s) ==
  [ fmt |-> "bad flag syntax: %s", name |-> << >>, value |-> s, cause |-> "" ]

NeedsArgument(name) ==
  [ fmt |-> "flag needs an argument: -%s", name |-> name, value |-> << >>, cause |-> "" ]

InvalidBoolean(value, name, cause) ==
  [ fmt |-> "invalid boolean value %q for -%s: %v", name |-> name, value |-> value,
    cause |-> cause ]

InvalidValue(value, name, cause) ==
  [ fmt |-> "invalid value %q for flag -%s: %v", name |-> name, value |-> value,
    cause |-> cause ]

\* errors.New(msg) of a Validate method
ErrorsNew(msg) == [ fmt |-> msg, name |-> << >>, value |-> << >>, cause |-> "" ]

(***************************************************************************)
(* Setting one flag.  The state of a scan is a record: args, the tokens    *)
(* fs.Parse still has to read; v, the fields of the target; heap, the      *)
(* values behind the pointers reflect.New returned; actual, the names      *)
(* fs.Visit will report; flagsCount; err.                                  *)
(***************************************************************************)

\* a setter that marks instead of counting
MarkFlag(counted, flagsCount, canon) ==
  IF counted THEN (canon :> 1) @@ flagsCount ELSE flagsCount

\* the setter of setupFlagsCount (flag.go, line 335): it counts before it sets
CountFlag(counted, flagsCount, canon) ==
  IF ~counted THEN flagsCount
  ELSE IF canon \in DOMAIN flagsCount
       THEN [ flagsCount EXCEPT ![canon] = @ + 1 ]
       ELSE (canon :> 1) @@ flagsCount

\* the pointer to a cell itself
Share(heap, cell) == [ heap |-> heap, elem |-> [ ptr |-> cell ] ]

\* the copy of a cell behind a pointer of its own (flag.go, lines 194-196)
\* and, below it, the element the closure of a slice flag appends (lines
\* 187-198) once Set has stored the value in the cell: Get of a text value
\* returns the pointer to the cell, which is dereferenced, or cloned for a
\* slice of pointers; Get of the other values returns the value
Clone(heap, cell) ==
  [ heap |-> Append(heap, heap[cell]), elem |-> [ ptr |-> Len(heap) + 1 ] ]

NewElem(b, heap) ==
  IF b.coerce = "text" /\ b.ptrElem THEN Clone(heap, b.cell)
  ELSE [ heap |-> heap, elem |-> heap[b.cell] ]

\* the scan after the setter of setupFlagsCount has counted the flag
Counted(fs, st, name) ==
  [ st EXCEPT !.flagsCount = CountFlag(fs.counted, @, fs.canonLookup[name]) ]

\* Set of the value of a scalar flag: the value is stored in the field, or
\* behind the pointer the field is, whether or not the literal parsed
StoreScalar(st, b, r) ==
  [ st EXCEPT !.v[b.field] = IF b.ptr THEN NewPointer(r.val) ELSE r.val ]

\* a closure that sets the field to a slice of the new element alone
\* (whatever the types)
ReplaceElems(st, b, new) ==
  [ st EXCEPT !.heap = new.heap, !.v[b.field] = << new.elem >> ]

\* fld.Set(reflect.Append(fld, newVal)) (flag.go, line 200): reflect panics
\* for a slice of pointers unless newVal is the clone of a text value
AppendElem(st, b, new) ==
  IF b.ptrElem /\ b.coerce # "text"
  THEN [ st EXCEPT !.heap = new.heap, !.panic = NotAssignable(b) ]
  ELSE [ st EXCEPT !.heap = new.heap, !.v[b.field] = Append(@, new.elem) ]

\* the closure of a slice flag (flag.go, lines 182-202): the value is stored in
\* the cell of the flag, and an element is appended if the literal parsed,
\* which may panic
StoreElem(st, b, r) ==
  IF r.ok THEN AppendElem(st, b, NewElem(b, [ st.heap EXCEPT ![b.cell] = r.val ]))
  ELSE [ st EXCEPT !.heap[b.cell] = r.val ]

\* what Set returns: the scan after it, and the cause of its error; a Set
\* that panicked returns nothing, and the scan holds the panic
SetResult(st, r) == [ ok |-> r.ok, cause |-> IF r.ok THEN "" ELSE r.cause, st |-> st ]

Store(st, b, r) ==
  SetResult(IF b.slice THEN StoreElem(st, b, r) ELSE StoreScalar(st, b, r), r)

\* flag.Value.Set of the flag bound to name, wrapped by setupFlagsCount if the
\* target counts its flags
ApplySet(fs, st, name, value) ==
  Store(Counted(fs, st, name), fs.formal[name], Coerce(fs.formal[name].coerce, value))

\* the name and the value of a token in flag syntax: the dashes are dropped
\* and the first "=" that is not the first character splits the two
FlagBody(s) == IF s[2] = "-" THEN Drop(s, 2) ELSE Drop(s, 1)

EqualsAt(body) == IF body = << >> THEN 0 ELSE 1 + IndexByte(Tail(body), "=")

HasValue(body) == EqualsAt(body) > 1

FlagName(body) == IF HasValue(body) THEN Take(body, EqualsAt(body) - 1) ELSE body

FlagValue(body) == IF HasValue(body) THEN Drop(body, EqualsAt(body)) ELSE << >>

Seen(st) == [ seen |-> TRUE, st |-> st ]

\* a panic of Set goes through parseOne and Parse
Panicked(st) == [ seen |-> FALSE, st |-> st ]

Stop(st, e) == [ seen |-> FALSE, st |-> [ st EXCEPT !.err = e ] ]

\* f.args = f.args[1:]
Shift(st) == [ st EXCEPT !.args = Tail(@) ]

\* the value of a flag: what follows its "=", "true" for a boolean flag without
\* one, the next argument for another flag without one
ValueOf(isBool, body, st) ==
  IF HasValue(body) THEN FlagValue(body)
  ELSE IF isBool THEN << "t", "r", "u", "e" >>
  ELSE st.args[1]

\* the arguments left once the flag has its value
ValueTaken(isBool, body, st) == IF HasValue(body) \/ isBool THEN st ELSE Shift(st)

\* a parseOne that takes the flag for set whatever Set returned
SetUnchecked(set, isBool, value, name) ==
  Seen([ set.st EXCEPT !.actual = @ \cup { name } ])

\* the end of parseOne, Set having returned: the flag is marked as set, or the
\* error of Set is wrapped; nothing of it is done if Set panicked
AfterSet(set, isBool, value, name) ==
  IF set.st.panic # NoPanic THEN Panicked(set.st)
  ELSE IF set.ok THEN Seen([ set.st EXCEPT !.actual = @ \cup { name } ])
  ELSE Stop(set.st, IF isBool THEN InvalidBoolean(value, name, set.cause)
                    ELSE InvalidValue(value, name, set.cause))

\* parseOne from the lookup of the flag on: st is the scan after the token
\* was taken off the arguments
parseFlag(fs, st, body, name) ==
  IF name \notin DOMAIN fs.formal
  THEN IF name = << "h", "e", "l", "p" >> \/ name = << "h" >>
       THEN Stop(st, ErrHelp)
       ELSE Stop(st, NotDefined(name))
  ELSE IF ~fs.formal[name].isBool /\ ~HasValue(body) /\ st.args = << >>
       THEN Stop(st, NeedsArgument(name))
  ELSE AfterSet(ApplySet(fs, ValueTaken(fs.formal[name].isBool, body, st), name,
                         ValueOf(fs.formal[name].isBool, body, st)),
                fs.formal[name].isBool,
                ValueOf(fs.formal[name].isBool, body, st), name)

\* FlagSet.parseOne of the standard library
parseOne(fs, st) ==
  IF st.args = << >> THEN Stop(st, NoError)
  ELSE IF Len(st.args[1]) < 2 \/ st.args[1][1] # "-" THEN Stop(st, NoError)
  ELSE IF st.args[1] = << "-", "-" >> THEN Stop(Shift(st), NoError)
  ELSE IF \/ FlagBody(st.args[1]) = << >>
          \/ FlagBody(st.args[1])[1] = "-"
          \/ FlagBody(st.args[1])[1] = "="
       THEN Stop(st, BadSyntax(st.args[1]))
  ELSE parseFlag(fs, Shift(st), FlagBody(st.args[1]), FlagName(FlagBody(st.args[1])))

RECURSIVE FlagSetParse(_, _)
\* the loop of FlagSet.Parse, parseOne having returned
ParseNext(fs, one) == IF one.seen THEN FlagSetParse(fs, one.st) ELSE one.st

\* FlagSet.Parse of the standard library with ContinueOnError: parseOne until
\* it sees no flag
FlagSetParse(fs, st) == ParseNext(fs, parseOne(fs, st))

\* a test that takes every token for a flag
LooksLikeFlagAlways(nf) == TRUE

\* the test of the loop over the non-flags (flag.go, lines 242-244)
LooksLikeFlag(nf) ==
  /\ \/ HasPrefix(nf, << "-" >>) /\ Len(nf) > 1
     \/ HasPrefix(nf, << "-", "-" >>) /\ Len(nf) > 2
  /\ ~HasPrefix(nf, << "-", "-", "-" >>)

\* a loop that takes every remaining token for a non-flag
CollectAll(nonFlags, cur) == [ nonFlags |-> nonFlags \o cur, args |-> << >> ]

RECURSIVE CollectFrom(_, _)
\* the loop over fs.Args() (flag.go, lines 234-251): the non-flags it appends
\* and the tokens it hands back to fs.Parse
CollectFrom(nonFlags, cur) ==
  IF cur = << >> THEN [ nonFlags |-> nonFlags, args |-> << >> ]
  ELSE IF cur[1] = << "-", "-" >>
       THEN [ nonFlags |-> nonFlags \o Tail(cur), args |-> << >> ]
  ELSE IF LooksLikeFlag(cur[1]) THEN [ nonFlags |-> nonFlags, args |-> cur ]
  ELSE CollectFrom(Append(nonFlags, cur[1]), Tail(cur))

(***************************************************************************)
(* The environment pass and the validation.                                *)
(***************************************************************************)

RECURSIVE TrimSlashes(_)
TrimSlashes(p) ==
  IF p # << >> /\ p[Len(p)] = "/" THEN TrimSlashes(Take(p, Len(p) - 1)) ELSE p

\* filepath.Base
Base(path) ==
  IF path = << >> THEN << "." >>
  ELSE LET p == TrimSlashes(path)
       IN IF p = << >> THEN << "/" >> ELSE Drop(p, LastIndexByte(p, "/"))

\* filepath.Ext
Ext(path) ==
  LET b == Drop(path, LastIndexByte(path, "/"))
  IN IF LastIndexByte(b, ".") = 0 THEN << >> ELSE Drop(b, LastIndexByte(b, ".") - 1)

prefixFromProgramName(name) ==
  LET b == Base(name)
      trimmed == IF Ext(b) # << >> /\ HasSuffix(b, Ext(b))
                 THEN Take(b, Len(b) - Len(Ext(b))) ELSE b
  IN ToUpper(ReplaceAll(trimmed, "-", "_")) \o << "_" >>

\* a prefix no variable of the environment has
OtherPrefix(prefix, as) == << "_" >>

\* the prefix parseEnvVars hands to env.Parse (flag.go, lines 366-373)
EnvPrefixOf(prefix, as) ==
  LET p == IF prefix = << >> /\ as # << >> THEN prefixFromProgramName(as[1])
           ELSE prefix
  IN IF p = << "-" >> THEN << >> ELSE p

\* 2^7, 2^8, 2^15 and 2^16, the cutoffs of the 8 and 16 bits of an int8, a
\* uint8, an int16 and a uint16
Two7 == << 1, 2, 8 >>

Two8 == << 2, 5, 6 >>

Two15 == << 3, 2, 7, 6, 8 >>

Two16 == << 6, 5, 5, 3, 6 >>

\* 2^31 and 2^32, the cutoffs of the 32 bits env.Parse gives an int and a uint
Two31 == << 2, 1, 4, 7, 4, 8, 3, 6, 4, 8 >>

Two32 == << 4, 2, 9, 4, 9, 6, 7, 2, 9, 6 >>

\* strconv.ParseInt(s, 10, bits), as env.Parse calls it with 32 bits for an
\* int or an int32 and the bits of every other kind: an optional sign and
\* decimal digits, of a magnitude below cutoff (cutoff itself if negative);
\* ok tells whether it returned no error
EnvParseInt(s, cutoff) ==
  LET body == IF s # << >> /\ s[1] \in { "+", "-" } THEN Tail(s) ELSE s
      neg == s # << >> /\ s[1] = "-"
      mag == StripZeros(digitsOf(body))
  IN IF body = << >> \/ \E i \in 1..Len(body) : ~IsDigit(body[i])
     THEN Fail(errParse, IntVal(FALSE, << >>))
     ELSE IF (~neg /\ ~BigLess(mag, cutoff)) \/ (neg /\ BigLess(cutoff, mag))
          THEN Fail(errRange, IntVal(FALSE, << >>))
          ELSE Ok(IntVal(neg, mag))

\* strconv.ParseUint(s, 10, bits), with 32 bits for a uint and the bits of
\* every other kind: decimal digits without a sign, of a value below cutoff
EnvParseUint(s, cutoff) ==
  LET mag == StripZeros(digitsOf(s))
  IN IF s = << >> \/ \E i \in 1..Len(s) : ~IsDigit(s[i])
     THEN Fail(errParse, IntVal(FALSE, << >>))
     ELSE IF ~BigLess(mag, cutoff) THEN Fail(errRange, IntVal(FALSE, << >>))
     ELSE Ok(IntVal(FALSE, mag))

errNoParser == "no parser found"

\* the parser env.Parse has for a type: UnmarshalText if a pointer to the
\* type has it, time.ParseDuration for a Duration, else the parser of the
\* kind; a pointer and a slice have none
EnvParser(ty, s) ==
  IF ty.kind \in { "ptr", "slice" } THEN Fail(errNoParser, << >>)
  ELSE IF ty.texter # "none" THEN UnmarshalText(s)
  ELSE IF ty.duration THEN SetDuration(s)
  ELSE CASE ty.kind = "string" -> Ok(s)
         [] ty.kind = "bool" -> SetBool(s)
         [] ty.kind \in { "int", "int8", "int16", "int32", "int64" } ->
              EnvParseInt(s, CASE ty.kind = "int8" -> Two7
                               [] ty.kind = "int16" -> Two15
                               [] ty.kind = "int64" -> Two63
                               [] OTHER -> Two31)
         [] ty.kind \in { "uint", "uint8", "uint16", "uint32", "uint64" } ->
              EnvParseUint(s, CASE ty.kind = "uint8" -> Two8
                                [] ty.kind = "uint16" -> Two16
                                [] ty.kind = "uint64" -> Two64
                                [] OTHER -> Two32)
         [] ty.kind \in { "float32", "float64" } ->
              ParseFloat(s, IF ty.kind = "float32" THEN 32 ELSE 64)
         [] OTHER -> Fail(errNoParser, << >>)

\* the type env.Parse looks a parser up for: the pointed type of a pointer,
\* the element type of a slice, the pointed type of its elements if they are
\* pointers
EnvBase(ty) ==
  CASE ty.kind = "ptr" -> ty.elem
    [] ty.kind = "slice" -> IF ty.elem.kind = "ptr" THEN ty.elem.elem ELSE ty.elem
    [] OTHER -> ty

\* the texts parsed: the parts between the commas for a slice
EnvParts(ty, s) == IF ty.kind = "slice" THEN Split(s, ",") ELSE << s >>

\* every text parsed as a value of the type
EnvParsed(ty, parts) == [ k \in 1..Len(parts) |-> EnvParser(ty, parts[k]) ]

\* the value of a field of type ty from the parsed texts rs.  A pointer
\* field that is nil is pointed to a new variable that takes the value; a
\* slice field is set to a new slice of the elements (each behind a new
\* pointer for a slice of pointers) if all of them parse, and the error is
\* that of the first that does not
EnvValue(ty, rs) ==
  CASE ty.kind = "ptr" ->
         IF rs[1].ok THEN Ok(NewPointer(rs[1].val)) ELSE Fail(rs[1].cause, << >>)
    [] ty.kind = "slice" ->
         IF \A k \in 1..Len(rs) : rs[k].ok
         THEN Ok([ k \in 1..Len(rs) |->
                     IF ty.elem.kind = "ptr" THEN NewPointer(rs[k].val) ELSE rs[k].val ])
         ELSE Fail(rs[CHOOSE k \in 1..Len(rs) :
                        ~rs[k].ok /\ \A j \in 1..(k - 1) : rs[j].ok].cause, << >>)
    [] OTHER -> rs[1]

\* the value env.Parse gives a field of type ty from the text s
EnvCoerce(ty, s) == EnvValue(ty, EnvParsed(EnvBase(ty), EnvParts(ty, s)))

\* the error of env.Parse, an AggregateError: "env:" and the messages of its
\* errors, separated by ";".  An error is the format of its message and the
\* field it is about
EnvAggregate(errs) ==
  [ fmt |-> "env: %v", name |-> << >>, value |-> errs, cause |-> "" ]

\* a field whose variable did not parse
EnvParseErrorOn(name) ==
  << "parse error on field \"%s\" of type \"%s\": %v", name >>

\* a field whose type has no parser
EnvNoParserErrorOn(name) ==
  << "no parser found for field \"%s\" of type \"%s\"", name >>

\* what was given to parse is not a pointer to a structure
EnvNotStructPtrError == << "expected a pointer to a Struct", "" >>

\* the error of env.Parse for fields whose variables did not parse
EnvParseError(names) ==
  EnvAggregate([ i \in 1..Len(names) |-> EnvParseErrorOn(names[i]) ])

\* the error of env.Parse for a target that is not a pointer to a structure
EnvNotStructPtr == EnvAggregate(<< EnvNotStructPtrError >>)

\* env.Parse looks up, for every field, the variable named by the prefix
\* followed by the key of the field's env tag, the prefix alone for a field
\* without env tag; a variable that is not set is the empty text, and the
\* empty text is no value
EnvGet(f, prefix, env) ==
  IF prefix \o f.env \in DOMAIN env THEN env[prefix \o f.env] ELSE << >>

\* the field is a pointer that is not nil: env.Parse parses what it points to
\* as a structure, which no pointer field of the targets points to, and the
\* error of that is the field's
EnvPointsTo(f, v) == f.type.kind = "ptr" /\ v[f.name] # << >>

\* a field after env.Parse looked its variable up, value being the text of
\* the variable and r what it parses to: the field takes the value if it
\* parses; a nil pointer whose value does not parse is left pointing to the
\* new variable, at its zero value
EnvSet(f, v, value, r) ==
  IF EnvPointsTo(f, v) \/ value = << >> THEN v
  ELSE IF r.ok THEN [ v EXCEPT ![f.name] = r.val ]
  ELSE IF f.type.kind = "ptr"
       THEN [ v EXCEPT ![f.name] = NewPointer(Zero(f.type.elem)) ]
  ELSE v

\* the errors of the field: that of a pointer that is not nil, that of a
\* type without parser, or that of a variable whose value does not parse
EnvFails(f, v, value, r) ==
  IF EnvPointsTo(f, v) THEN << EnvNotStructPtrError >>
  ELSE IF value = << >> \/ r.ok THEN << >>
  ELSE IF r.cause = errNoParser THEN << EnvNoParserErrorOn(f.name) >>
  ELSE << EnvParseErrorOn(f.name) >>

RECURSIVE EnvParseFields(_, _, _, _, _)

\* the first field is done, r being what its value parses to
EnvParseField(fields, v, prefix, env, failed, value, r) ==
  EnvParseFields(Tail(fields), EnvSet(fields[1], v, value, r), prefix, env,
                 failed \o EnvFails(fields[1], v, value, r))

\* the first field's variable is looked up
EnvLookup(fields, v, prefix, env, failed, value) ==
  EnvParseField(fields, v, prefix, env, failed, value, EnvCoerce(fields[1].type, value))

\* the loop of env.Parse over the fields: after a field that does not parse
\* the loop goes on; the errors are returned together
EnvParseFields(fields, v, prefix, env, failed) ==
  IF fields = << >>
  THEN [ v |-> v, err |-> IF failed = << >> THEN NoError ELSE EnvAggregate(failed) ]
  ELSE EnvLookup(fields, v, prefix, env, failed, EnvGet(fields[1], prefix, env))

\* env.Parse(v, env.Options{Prefix: prefix})
EnvParse(t, v, prefix, env) ==
  IF ~IsStructPointer(t) THEN [ v |-> v, err |-> EnvNotStructPtr ]
  ELSE EnvParseFields(Fields(t), v, prefix, env, << >>)

\* the Validate method of the test structure E
Validate(v) ==
  IF v["Help"] \/ v["Version"] THEN NoError
  ELSE IF v["Addr"] = << >> THEN ErrorsNew("address must be set")
  ELSE IF v["DB"] = << >> THEN ErrorsNew("db must be set")
  ELSE NoError

\* the Validate method of the command structure: the address is required
\* unless help is asked for
ValidateCmd(v) ==
  IF v["Help"] THEN NoError
  ELSE IF v["Addr"] = << >> THEN ErrorsNew("address must be set")
  ELSE NoError

\* a validation that accepts everything
Unvalidated(t, v) == NoError

\* val.Validate() (flag.go, line 96): the method of the target
ValidateOf(t, v) == IF t = "Cmd" THEN ValidateCmd(v) ELSE Validate(v)

(***************************************************************************)
(* The calls checked: a target structure, a parser, an environment and an  *)
(* argument vector made of the program name and at most MaxArgs tokens of  *)
(* a small vocabulary.                                                     *)
(***************************************************************************)

MaxArgs == 4

SeqsUpTo(S, n) == UNION { [ 1..k -> S ] : k \in 0..n }

\* "/x/my-app.exe", whose environment prefix is "MY_APP_"
ProgName == << "/", "x", "/", "m", "y", "-", "a", "p", "p", ".", "e", "x", "e" >>

\* tokens for F: a  --  -b  -s  --string=y  -z  --int=0x1F
VocabF ==
  { << "a" >>, << "-", "-" >>, << "-", "b" >>, << "-", "s" >>,
    << "-", "-", "s", "t", "r", "i", "n", "g", "=", "y" >>, << "-", "z" >>,
    << "-", "-", "i", "n", "t", "=", "0", "x", "1", "F" >> }

\* tokens for Fc: a  -b  -s  --string=y  -h  --help  -help=1
VocabFc ==
  { << "a" >>, << "-", "b" >>, << "-", "s" >>,
    << "-", "-", "s", "t", "r", "i", "n", "g", "=", "y" >>, << "-", "h" >>,
    << "-", "-", "h", "e", "l", "p" >>, << "-", "h", "e", "l", "p", "=", "1" >> }

\* tokens for Fs: x  --  -s  -s=a  --string=bc  -prev=ab  -prev=c
VocabFs ==
  { << "x" >>, << "-", "-" >>, << "-", "s" >>, << "-", "s", "=", "a" >>,
    << "-", "-", "s", "t", "r", "i", "n", "g", "=", "b", "c" >>,
    << "-", "p", "r", "e", "v", "=", "a", "b" >>, << "-", "p", "r", "e", "v", "=", "c" >> }

\* tokens for Fs, one per element type: -i  7  -u=0x10  -b=1  -f=0x1.8p1  -t=1s
\* -rev=éb
VocabFsTypes ==
  { << "-", "i" >>, << "7" >>, << "-", "u", "=", "0", "x", "1", "0" >>,
    << "-", "b", "=", "1" >>,
    << "-", "f", "=", "0", "x", "1", ".", "8", "p", "1" >>,
    << "-", "t", "=", "1", "s" >>, << "-", "r", "e", "v", "=", "é", "b" >> }

\* tokens for E: a  -addr  -addr=f  -db=g  -v
VocabE ==
  { << "a" >>, << "-", "a", "d", "d", "r" >>,
    << "-", "a", "d", "d", "r", "=", "f" >>, << "-", "d", "b", "=", "g" >>,
    << "-", "v" >> }

EnvAddr == << "M", "Y", "_", "A", "P", "P", "_", "A", "D", "D", "R" >>

EnvDB == << "M", "Y", "_", "A", "P", "P", "_", "D", "B" >>

NoEnviron == << >>

\* the variable whose name is the prefix alone, which a field without env
\* tag reads
EnvBare == << "M", "Y", "_", "A", "P", "P", "_" >>

\* environments: nothing set, the address, both, the address set to "", and
\* the address with the variable named by the prefix alone
Environs ==
  { NoEnviron,
    EnvAddr :> << "e" >>,
    (EnvAddr :> << "e" >>) @@ (EnvDB :> << "d" >>),
    (EnvAddr :> << >>) @@ (EnvDB :> << "d" >>),
    (EnvAddr :> << "e" >>) @@ (EnvBare :> << "1" >>) }

Suites ==
  { [ target |-> "F", vocab |-> VocabF, envVars |-> { FALSE }, environs |-> { NoEnviron } ],
    [ target |-> "Fc", vocab |-> VocabFc, envVars |-> { FALSE }, environs |-> { NoEnviron } ],
    [ target |-> "Fs", vocab |-> VocabFs, envVars |-> { FALSE }, environs |-> { NoEnviron } ],
    [ target |-> "Fs", vocab |-> VocabFsTypes, envVars |-> { FALSE },
      environs |-> { NoEnviron } ],
    [ target |-> "E", vocab |-> VocabE, envVars |-> BOOLEAN, environs |-> Environs ] }

\* tokens for the command structure: a  -addr=f  -p=8  -port=x  -h  -h=x
VocabCmd ==
  { << "a" >>, << "-", "a", "d", "d", "r", "=", "f" >>, << "-", "p", "=", "8" >>, << "-", "p", "o", "r", "t", "=", "x" >>, << "-", "h" >>, << "-", "h", "=", "x" >> }

EnvPort == << "M", "Y", "_", "A", "P", "P", "_", "P", "O", "R", "T" >>

\* environments of the command structure: nothing set, the address, the
\* address and the port, a port that is not a number, the address under
\* the name it has without a prefix, and the variable named by the prefix
\* alone, which Help reads, as a boolean and as no boolean
EnvironsCmd ==
  { NoEnviron,
    << "A", "D", "D", "R" >> :> << "u" >>,
    EnvAddr :> << "e" >>,
    (EnvAddr :> << "e" >>) @@ (EnvPort :> << "9" >>),
    EnvPort :> << "x" >>,
    EnvBare :> << "1" >>,
    (EnvAddr :> << "e" >>) @@ (EnvBare :> << "x" >>) }

\* tokens for F with values that do not coerce: a  --  --int=7  "- sp "  -t=x
\* -u64=-1
VocabDefaults ==
  { << "a" >>, << "-", "-" >>, << "-", "-", "i", "n", "t", "=", "7" >>,
    << "-", " ", "s", "p", " " >>, << "-", "t", "=", "x" >>, << "-", "u", "6", "4", "=", "-", "1" >> }

\* the structure f of TestParseDefaultsSet
DefaultsF ==
  [ S |-> << "s" >>, I |-> IntVal(FALSE, << 1 >>), B |-> TRUE, H |-> FALSE,
    T |-> IntVal(FALSE, << 3, 6, 0, 0, 0, 0, 0, 0, 0, 0, 0, 0, 0 >>),
    N |-> IntVal(FALSE, << 5 >>), I64 |-> IntVal(FALSE, << 2 >>),
    U64 |-> IntVal(FALSE, << 3 >>), F64 |-> FloatVal(FALSE, << 4 >>, 0),
    Spaced |-> << "s", "p" >> ]

\* tokens for Fs with an element that does not coerce: x  -s=a  -i=z
VocabElems ==
  { << "x" >>, << "-", "s", "=", "a" >>, << "-", "i", "=", "z" >> }

\* a structure Fs whose strings already hold "p"
DefaultsFs == [ ZeroStruct("Fs") EXCEPT !["Ss"] = << << "p" >> >> ]

\* tokens for the structure with repeatable fields that read the environment:
\* x  -s=a  -s=b  -i=7
VocabSeeded ==
  { << "x" >>, << "-", "s", "=", "a" >>, << "-", "s", "=", "b" >>,
    << "-", "i", "=", "7" >> }

\* MY_APP_SS=p,q and MY_APP_IS=4
EnvironSeeded ==
  (<< "M", "Y", "_", "A", "P", "P", "_", "S", "S" >> :> << "p", ",", "q" >>)
    @@ (<< "M", "Y", "_", "A", "P", "P", "_", "I", "S" >> :> << "4" >>)

\* such a structure whose strings already hold "d"
DefaultsSeeded == [ ZeroStruct("Seeded") EXCEPT !["Ss"] = << << "d" >> >> ]

\* tokens for the structure with a pointer to a text value: x  -r=ab
VocabPtrText == { << "x" >>, << "-", "r", "=", "a", "b" >> }

\* MY_APP_R=cd
EnvironPtrText == << "M", "Y", "_", "A", "P", "P", "_", "R" >> :> << "c", "d" >>

\* such a structure whose pointer is not nil: it points to "p"
DefaultsPtrText == [ R |-> NewPointer(<< "p" >>) ]

\* tokens for the structure with a slice of pointers: a  -b=1  -b=z
VocabPtrElems ==
  { << "a" >>, << "-", "b", "=", "1" >>, << "-", "b", "=", "z" >> }

\* tokens for the structures that cannot be bound: -x  1
VocabBind == { << "-", "x" >>, << "1" >> }

\* tokens that begin with a dash and are no flag: a  -b  ---x  -
VocabDashes ==
  { << "a" >>, << "-", "b" >>, << "-", "-", "-", "x" >>, << "-" >> }

\* the calls with structures that read the environment, that hold values
\* before the call, that cannot be bound or whose flags cannot be set;
\* starts holds the values of the target before the call
Cases ==
  { [ target |-> "F", vocab |-> VocabDashes, envVars |-> { FALSE },
      environs |-> { NoEnviron }, starts |-> { ZeroStruct("F") } ],
    [ target |-> "Cmd", vocab |-> VocabCmd, envVars |-> { TRUE },
      environs |-> EnvironsCmd, starts |-> { ZeroStruct("Cmd") } ],
    [ target |-> "Cmd", vocab |-> VocabCmd, envVars |-> { FALSE },
      environs |-> { NoEnviron }, starts |-> { ZeroStruct("Cmd") } ],
    [ target |-> "F", vocab |-> VocabDefaults, envVars |-> { FALSE },
      environs |-> { NoEnviron }, starts |-> { ZeroStruct("F"), DefaultsF } ],
    [ target |-> "Fs", vocab |-> VocabElems, envVars |-> { FALSE },
      environs |-> { NoEnviron }, starts |-> { DefaultsFs } ],
    [ target |-> "noFlagSetArgs", vocab |-> VocabBind, envVars |-> { FALSE },
      environs |-> { NoEnviron }, starts |-> { ZeroStruct("noFlagSetArgs") } ],
    [ target |-> "Seeded", vocab |-> VocabSeeded, envVars |-> BOOLEAN,
      environs |-> { NoEnviron, EnvironSeeded },
      starts |-> { ZeroStruct("Seeded"), DefaultsSeeded } ],
    [ target |-> "PtrText", vocab |-> VocabPtrText, envVars |-> BOOLEAN,
      environs |-> { NoEnviron, EnvironPtrText },
      starts |-> { ZeroStruct("PtrText"), DefaultsPtrText } ],
    [ target |-> "PtrElems", vocab |-> VocabPtrElems, envVars |-> { FALSE },
      environs |-> { NoEnviron }, starts |-> { ZeroStruct("PtrElems") } ] }
  \cup
  { [ target |-> t, vocab |-> VocabBind, envVars |-> BOOLEAN,
      environs |-> { NoEnviron }, starts |-> { ZeroStruct(t) } ] :
    t \in { "Dup", "DupAlt", "DupSelf", "DupSlice", "Unsup", "UnsupSlice", "Dash",
            "Eq", "int", "*int" } }

\* the argument vectors of a vocabulary, the empty one included
ArgVectors(vocab) ==
  { << >> } \cup { << ProgName >> \o toks : toks \in SeqsUpTo(vocab, MaxArgs) }

(***************************************************************************)
(* One call of Parser.Parse.                                               *)
(***************************************************************************)

VARIABLES
  target,     \* the type of v
  parser,     \* the Parser: EnvVars, EnvPrefix
  environ,    \* the environment of the process
  args,       \* the argument vector
  pc,         \* where the call is
  v,          \* the fields of the target
  v0,         \* the fields of the target when Parse was called
  heap,       \* the values behind the pointers made by reflect.New
  fs,         \* the flag set
  rest,       \* args of the loop of parseFlags
  nonFlags,   \* nonFlags of parseFlags
  actual,     \* the names of the flags that were set (fs.Visit)
  flagsCount, \* the map of setupFlagsCount
  got,        \* what SetArgs, SetFlags and SetFlagsCount received
  calls,      \* the methods of the target called so far, in order
  err,        \* the error Parse returns
  signals,    \* the signals given to CancelOnSignal
  parentDone, \* whether the context given to CancelOnSignal is canceled
  cpc,        \* where the call of CancelOnSignal is
  ctx,        \* the variable ctx of CancelOnSignal
  canceled,   \* whether cancel, of context.WithCancel, was called
  ret,        \* the context CancelOnSignal returned
  handlers,   \* the signals that signal.Notify relays to ch
  pending,    \* the signals received that the signal package has yet to relay
  ch,         \* the channel ch of CancelOnSignal
  gpc,        \* where the goroutine of CancelOnSignal is
  received,   \* the signals the process received, and whether after the return
  other,      \* the variables of a second call of Parse, while it does not run
  turn        \* which of the two calls of Parse runs: 1 or 2

\* the variables of a call of Parse
parseVars ==
  << target, parser, environ, args, pc, v, v0, heap, fs, rest, nonFlags, actual,
     flagsCount, got, calls, err >>

\* the variables of a call of CancelOnSignal
signalVars ==
  << signals, parentDone, cpc, ctx, canceled, ret, handlers, pending, ch, gpc,
     received >>

\* the variables of a second, concurrent call of Parse
pairVars == << other, turn >>

vars == << parseVars, signalVars, pairVars >>

\* no second call of Parse
NoFrame == << >>

NoSecondCall == other = NoFrame /\ turn = 1

\* CancelOnSignal is not called
NoCancelOnSignal ==
  /\ signals = { }
  /\ parentDone = FALSE
  /\ cpc = "idle"
  /\ ctx = "parent"
  /\ canceled = FALSE
  /\ ret = "none"
  /\ handlers = { }
  /\ pending = { }
  /\ ch = << >>
  /\ gpc = "none"
  /\ received = { }

NotCalled == [ called |-> FALSE, nil |-> TRUE, val |-> << >> ]

Init ==
  /\ \E su \in Suites :
       /\ target = su.target
       /\ parser \in [ EnvVars : su.envVars, EnvPrefix : { << >> } ]
       /\ environ \in su.environs
       /\ args \in ArgVectors(su.vocab)
  /\ pc = "Parse"
  /\ v = ZeroStruct(target)
  /\ v0 = v
  /\ heap = << >>
  /\ fs = EmptyFlagSet
  /\ rest = << >>
  /\ nonFlags = << >>
  /\ actual = { }
  /\ flagsCount = << >>
  /\ got = [ args |-> NotCalled, flags |-> NotCalled, counts |-> NotCalled ]
  /\ calls = << >>
  /\ err = NoError
  /\ NoCancelOnSignal
  /\ NoSecondCall

\* a call with one of the cases
InitCases ==
  /\ \E su \in Cases :
       /\ target = su.target
       /\ parser \in [ EnvVars : su.envVars, EnvPrefix : { << >> } ]
       /\ environ \in su.environs
       /\ args \in ArgVectors(su.vocab)
       /\ v \in su.starts
  /\ pc = "Parse"
  /\ v0 = v
  /\ heap = << >>
  /\ fs = EmptyFlagSet
  /\ rest = << >>
  /\ nonFlags = << >>
  /\ actual = { }
  /\ flagsCount = << >>
  /\ got = [ args |-> NotCalled, flags |-> NotCalled, counts |-> NotCalled ]
  /\ calls = << >>
  /\ err = NoError
  /\ NoCancelOnSignal
  /\ NoSecondCall

\* a Parse that goes on whatever parseEnvVars returned
EnvVarsUnchecked(r) ==
  /\ v' = r.v
  /\ err' = err
  /\ pc' = "parseFlags"

\* what parseEnvVars returned: its error ends the call (flag.go, lines 84-86)
AfterEnvVars(r) ==
  /\ v' = r.v
  /\ err' = r.err
  /\ pc' = IF r.err # NoError THEN "return" ELSE "parseFlags"

\* Parse up to the call of parseFlags (flag.go, lines 82-90): the environment pass
ParseEnvVars ==
  /\ pc = "Parse"
  /\ IF parser.EnvVars
     THEN AfterEnvVars(EnvParse(target, v, EnvPrefixOf(parser.EnvPrefix, args), environ))
     ELSE /\ pc' = "parseFlags"
          /\ UNCHANGED << v, err >>
  /\ UNCHANGED << signalVars, pairVars >>
  /\ UNCHANGED << target, parser, environ, args, v0, heap, fs, rest, nonFlags, actual,
                  flagsCount, got, calls >>

\* setupFlagsCount (flag.go, lines 212-218, 327-346)
setupFlagsCount(f, t) ==
  IF "SetFlagsCount" \in Methods(t) THEN [ f EXCEPT !.counted = TRUE ] ELSE f

\* parseFlags from the loop over the fields to its loop over the arguments
\* (flag.go, lines 140-221): new is the flag set built from the fields
Bound(new) ==
  IF new.panic # NoPanic
  THEN /\ pc' = "panic"
       /\ fs' = new
       /\ UNCHANGED << heap, rest >>
  ELSE /\ fs' = setupFlagsCount(new, target)
       /\ heap' = new.cells
       /\ rest' = Tail(args)
       /\ pc' = IF Tail(args) = << >> THEN "deliver" ELSE "fs.Parse"

\* a parseFlags that binds each flag with the zero value of its type for
\* default, not with the value the field holds
ParseFlagsZeroed ==
  /\ pc = "parseFlags"
  /\ IF args = << >>
     THEN /\ pc' = "Validate"
          /\ UNCHANGED << fs, heap, rest, v >>
     ELSE /\ Bound(NewFlagSet(target, v))
          /\ v' = [ n \in DOMAIN v |->
                     IF TagNames(FieldOf(target, n)) # << >>
                     THEN Zero(FieldOf(target, n).type) ELSE v[n] ]
  /\ UNCHANGED << signalVars, pairVars >>
  /\ UNCHANGED << target, parser, environ, args, v0, nonFlags, actual, flagsCount,
                  got, calls, err >>

\* a parseFlags that skips the scan of an empty argument vector and goes on
\* to the calls that follow it
ParseFlagsUnguarded ==
  /\ pc = "parseFlags"
  /\ IF args = << >>
     THEN /\ pc' = "deliver"
          /\ UNCHANGED << fs, heap, rest >>
     ELSE Bound(NewFlagSet(target, v))
  /\ UNCHANGED << signalVars, pairVars >>
  /\ UNCHANGED << target, parser, environ, args, v, v0, nonFlags, actual, flagsCount,
                  got, calls, err >>

\* parseFlags up to its loop (flag.go, lines 119-221): the flag set is built
ParseFlagsSetup ==
  /\ pc = "parseFlags"
  /\ IF args = << >>
     THEN /\ pc' = "Validate"
          /\ UNCHANGED << fs, heap, rest >>
     ELSE Bound(NewFlagSet(target, v))
  /\ UNCHANGED << signalVars, pairVars >>
  /\ UNCHANGED << target, parser, environ, args, v, v0, nonFlags, actual, flagsCount,
                  got, calls, err >>

\* the error parseFlags returns for an error of fs.Parse (flag.go, lines 223-231)
ScanError(f, as, e) ==
  IF e = ErrHelp
  THEN IF << "h", "e", "l", "p" >> \notin DOMAIN f.formal
          /\ sliceContains(as, << "-", "h", "e", "l", "p" >>)
       THEN NotDefined(<< "h", "e", "l", "p" >>)
       ELSE NotDefined(<< "h" >>)
  ELSE e

\* the loop of parseFlags after fs.Parse (flag.go, lines 223-233): st is the
\* scan fs.Parse left, or the scan at the panic of a Set, which ends the
\* call
AfterFsParse(st) ==
  /\ v' = st.v
  /\ heap' = st.heap
  /\ actual' = st.actual
  /\ flagsCount' = st.flagsCount
  /\ IF st.panic # NoPanic
     THEN /\ fs' = [ fs EXCEPT !.panic = st.panic ]
          /\ err' = err
          /\ rest' = rest
          /\ pc' = "panic"
     ELSE IF st.err # NoError
     THEN /\ fs' = fs
          /\ err' = ScanError(fs, rest, st.err)
          /\ rest' = rest
          /\ pc' = "return"
     ELSE /\ fs' = fs
          /\ err' = err
          /\ rest' = st.args
          /\ pc' = "collect"

\* one fs.Parse(args) of the loop (flag.go, lines 222-233)
FsParse ==
  /\ pc = "fs.Parse"
  /\ AfterFsParse(FlagSetParse(fs, [ args |-> rest, v |-> v, heap |-> heap,
                                     actual |-> actual, flagsCount |-> flagsCount,
                                     err |-> NoError, panic |-> NoPanic ]))
  /\ UNCHANGED << signalVars, pairVars >>
  /\ UNCHANGED << target, parser, environ, args, v0, nonFlags, got, calls >>

\* the loop of parseFlags goes on with what the loop over fs.Args() left
Collected(c) ==
  /\ nonFlags' = c.nonFlags
  /\ rest' = c.args
  /\ pc' = IF c.args = << >> THEN "deliver" ELSE "fs.Parse"

\* the loop over fs.Args() that follows (flag.go, lines 234-251)
CollectNonFlags ==
  /\ pc = "collect"
  /\ Collected(CollectFrom(nonFlags, rest))
  /\ UNCHANGED << signalVars, pairVars >>
  /\ UNCHANGED << target, parser, environ, args, v, v0, heap, fs, actual, flagsCount,
                  got, calls, err >>

Received(isNil, val) == [ called |-> TRUE, nil |-> isNil, val |-> val ]

\* an allocated map whatever was counted
AllocatedCounts(counts) == Received(FALSE, counts)

\* the argument of SetFlagsCount (flag.go, lines 269-275)
CountsArgument(counts) == Received(DOMAIN counts = { }, counts)

\* the flags told from the fields that no longer hold what they held
FlagsByValue(f, names) ==
  LET changed == { n \in DOMAIN f.formal : v[f.formal[n].field] # v0[f.formal[n].field] }
  IN Received(changed = { }, { f.canonLookup[n] : n \in changed })

\* the argument of SetFlags (flag.go, lines 258-267)
FlagsArgument(f, names) == Received(names = { }, { f.canonLookup[n] : n \in names })

\* SetFlagsCount called before SetArgs and SetFlags
DeliveryCallsCountsFirst(t) ==
  SelectSeq(<< "SetFlagsCount", "SetArgs", "SetFlags" >>, LAMBDA m : m \in Methods(t))

\* the methods parseFlags calls on a structure of type t, in the order of its
\* three type assertions (flag.go, lines 254, 258, 269)
DeliveryCalls(t) ==
  SelectSeq(<< "SetArgs", "SetFlags", "SetFlagsCount" >>, LAMBDA m : m \in Methods(t))

\* the calls of SetArgs, SetFlags and SetFlagsCount (flag.go, lines 254-277)
Deliver ==
  /\ pc = "deliver"
  /\ got' =
       [ args |-> IF "SetArgs" \in Methods(target)
                  THEN Received(nonFlags = << >>, nonFlags) ELSE got.args,
         flags |-> IF "SetFlags" \in Methods(target)
                   THEN FlagsArgument(fs, actual) ELSE got.flags,
         counts |-> IF "SetFlagsCount" \in Methods(target)
                    THEN CountsArgument(flagsCount) ELSE got.counts ]
  /\ calls' = calls \o DeliveryCalls(target)
  /\ pc' = "Validate"
  /\ UNCHANGED << signalVars, pairVars >>
  /\ UNCHANGED << target, parser, environ, args, v, v0, heap, fs, rest, nonFlags,
                  actual, flagsCount, err >>

\* the end of Parse (flag.go, lines 95-98)
ValidateStep ==
  /\ pc = "Validate"
  /\ IF "Validate" \in Methods(target)
     THEN /\ err' = ValidateOf(target, v)
          /\ calls' = Append(calls, "Validate")
     ELSE UNCHANGED << err, calls >>
  /\ pc' = "return"
  /\ UNCHANGED << signalVars, pairVars >>
  /\ UNCHANGED << target, parser, environ, args, v, v0, heap, fs, rest, nonFlags,
                  actual, flagsCount, got >>

Next ==
  \/ ParseEnvVars
  \/ ParseFlagsSetup
  \/ FsParse
  \/ CollectNonFlags
  \/ Deliver
  \/ ValidateStep

Spec == Init /\ [][Next]_vars

SpecCases == InitCases /\ [][Next]_vars

\* tokens for the loop of parseFlags on the command structure:
\* a  --  -h  -addr  -p=8
VocabScan ==
  { << "a" >>, << "-", "-" >>, << "-", "h" >>, << "-", "a", "d", "d", "r" >>,
    << "-", "p", "=", "8" >> }

\* a call of Parse on the command structure, without the environment pass
InitScan ==
  /\ target = "Cmd"
  /\ parser = [ EnvVars |-> FALSE, EnvPrefix |-> << >> ]
  /\ environ = NoEnviron
  /\ args \in ArgVectors(VocabScan)
  /\ pc = "Parse"
  /\ v = ZeroStruct(target)
  /\ v0 = v
  /\ heap = << >>
  /\ fs = EmptyFlagSet
  /\ rest = << >>
  /\ nonFlags = << >>
  /\ actual = { }
  /\ flagsCount = << >>
  /\ got = [ args |-> NotCalled, flags |-> NotCalled, counts |-> NotCalled ]
  /\ calls = << >>
  /\ err = NoError
  /\ NoCancelOnSignal
  /\ NoSecondCall

SpecScan == InitScan /\ [][Next]_vars

(***************************************************************************)
(* Two calls of Parse on one Parser, each with its own structure, run by   *)
(* two goroutines: the Parser and the environment are shared, everything   *)
(* else is local to a call (flag.go, lines 119-139, 212-221).              *)
(***************************************************************************)

\* the most tokens after the program name, for each of two concurrent calls
MaxPairArgs == 2

\* tokens for two concurrent calls: a  -p=8  -h=x
VocabPair == { << "a" >>, << "-", "p", "=", "8" >>, << "-", "h", "=", "x" >> }

PairVectors ==
  { << >> } \cup { << ProgName >> \o toks : toks \in SeqsUpTo(VocabPair, MaxPairArgs) }

\* the variables of a call of Parse on a structure of type t that holds
\* start, with the arguments as, before its first step
StartFrame(t, as, start) ==
  [ target |-> t, args |-> as, pc |-> "Parse", v |-> start, v0 |-> start,
    heap |-> << >>, fs |-> EmptyFlagSet, rest |-> << >>, nonFlags |-> << >>,
    actual |-> { }, flagsCount |-> << >>,
    got |-> [ args |-> NotCalled, flags |-> NotCalled, counts |-> NotCalled ],
    calls |-> << >>, err |-> NoError ]

\* the variables of the call that runs
Frame ==
  [ target |-> target, args |-> args, pc |-> pc, v |-> v, v0 |-> v0, heap |-> heap,
    fs |-> fs, rest |-> rest, nonFlags |-> nonFlags, actual |-> actual,
    flagsCount |-> flagsCount, got |-> got, calls |-> calls, err |-> err ]

\* a Parser that keeps the non-flags between calls: the call that resumes
\* finds those the other call left
ResumeShared(fr) ==
  /\ target' = fr.target
  /\ args' = fr.args
  /\ pc' = fr.pc
  /\ v' = fr.v
  /\ v0' = fr.v0
  /\ heap' = fr.heap
  /\ fs' = fr.fs
  /\ rest' = fr.rest
  /\ nonFlags' = nonFlags
  /\ actual' = fr.actual
  /\ flagsCount' = fr.flagsCount
  /\ got' = fr.got
  /\ calls' = fr.calls
  /\ err' = fr.err

\* the call whose variables are fr runs again: every variable of parseFlags
\* is local to the call (flag.go, lines 119-139, 212-221)
Resume(fr) ==
  /\ target' = fr.target
  /\ args' = fr.args
  /\ pc' = fr.pc
  /\ v' = fr.v
  /\ v0' = fr.v0
  /\ heap' = fr.heap
  /\ fs' = fr.fs
  /\ rest' = fr.rest
  /\ nonFlags' = fr.nonFlags
  /\ actual' = fr.actual
  /\ flagsCount' = fr.flagsCount
  /\ got' = fr.got
  /\ calls' = fr.calls
  /\ err' = fr.err

\* two calls of Parse on the structure of the command, one Parser and one
\* environment for both
InitPair ==
  /\ target = "Cmd"
  /\ parser \in [ EnvVars : BOOLEAN, EnvPrefix : { << >> } ]
  /\ environ \in { NoEnviron, (EnvAddr :> << "e" >>) @@ (EnvPort :> << "9" >>) }
  /\ args \in PairVectors
  /\ pc = "Parse"
  /\ v = ZeroStruct(target)
  /\ v0 = v
  /\ heap = << >>
  /\ fs = EmptyFlagSet
  /\ rest = << >>
  /\ nonFlags = << >>
  /\ actual = { }
  /\ flagsCount = << >>
  /\ got = [ args |-> NotCalled, flags |-> NotCalled, counts |-> NotCalled ]
  /\ calls = << >>
  /\ err = NoError
  /\ \E as \in PairVectors : other = StartFrame("Cmd", as, ZeroStruct("Cmd"))
  /\ turn = 1
  /\ NoCancelOnSignal

\* the scheduler takes the goroutine of the call that runs off and runs the
\* goroutine of the other call
Switch ==
  /\ other # NoFrame
  /\ other' = Frame
  /\ Resume(other)
  /\ turn' = 3 - turn
  /\ UNCHANGED << parser, environ >>
  /\ UNCHANGED signalVars

NextPair ==
  \/ ParseEnvVars
  \/ ParseFlagsSetup
  \/ FsParse
  \/ CollectNonFlags
  \/ Deliver
  \/ ValidateStep
  \/ Switch

SpecPair == InitPair /\ [][NextPair]_vars

(***************************************************************************)
(* CancelOnSignal (mainer.go, lines 97-114), the signals the process       *)
(* receives and the goroutine that waits for one of them.                  *)
(***************************************************************************)

\* the signals a process may be sent
Sigs == { "SIGINT", "SIGTERM", "SIGUSR1" }

\* the capacity of ch: make(chan os.Signal, 1)
ChanCap == 1

\* whether context c is canceled: the one made by WithCancel is once cancel
\* was called or once its parent is
Done(c) == IF c = "child" THEN canceled \/ parentDone ELSE parentDone

\* a Notify that registers nothing
NotifyNothing(h, sigs) == h

\* signal.Notify(ch, signals...): the signals relayed to ch from now on
Notify(h, sigs) == h \cup sigs

\* no call of Parse is under way
NoParse ==
  /\ target = "F"
  /\ parser = [ EnvVars |-> FALSE, EnvPrefix |-> << >> ]
  /\ environ = NoEnviron
  /\ args = << >>
  /\ pc = "idle"
  /\ v = ZeroStruct(target)
  /\ v0 = v
  /\ heap = << >>
  /\ fs = EmptyFlagSet
  /\ rest = << >>
  /\ nonFlags = << >>
  /\ actual = { }
  /\ flagsCount = << >>
  /\ got = [ args |-> NotCalled, flags |-> NotCalled, counts |-> NotCalled ]
  /\ calls = << >>
  /\ err = NoError

\* a call of CancelOnSignal with any signals, on a context canceled or not
InitSignal ==
  /\ signals \in SUBSET Sigs
  /\ parentDone \in BOOLEAN
  /\ cpc = "CancelOnSignal"
  /\ ctx = "parent"
  /\ canceled = FALSE
  /\ ret = "none"
  /\ handlers = { }
  /\ pending = { }
  /\ ch = << >>
  /\ gpc = "none"
  /\ received = { }
  /\ NoParse
  /\ NoSecondCall

\* lines 100-102: without signals the context given is returned
CheckSignals ==
  /\ cpc = "CancelOnSignal"
  /\ IF signals = { }
       THEN ret' = ctx /\ cpc' = "returned"
       ELSE ret' = ret /\ cpc' = "WithCancel"
  /\ UNCHANGED << signals, parentDone, ctx, canceled, handlers, pending, ch, gpc,
                  received >>
  /\ UNCHANGED << parseVars, pairVars >>

\* line 104: ctx, cancel := context.WithCancel(ctx)
WithCancel ==
  /\ cpc = "WithCancel"
  /\ ctx' = "child"
  /\ cpc' = "Notify"
  /\ UNCHANGED << signals, parentDone, canceled, ret, handlers, pending, ch, gpc,
                  received >>
  /\ UNCHANGED << parseVars, pairVars >>

\* lines 106-107: ch := make(chan os.Signal, 1); signal.Notify(ch, signals...)
NotifyStep ==
  /\ cpc = "Notify"
  /\ ch' = << >>
  /\ handlers' = Notify(handlers, signals)
  /\ cpc' = "go"
  /\ UNCHANGED << signals, parentDone, ctx, canceled, ret, pending, gpc, received >>
  /\ UNCHANGED << parseVars, pairVars >>

\* line 108: the goroutine is started
GoStep ==
  /\ cpc = "go"
  /\ gpc' = "recv"
  /\ cpc' = "return"
  /\ UNCHANGED << signals, parentDone, ctx, canceled, ret, handlers, pending, ch,
                  received >>
  /\ UNCHANGED << parseVars, pairVars >>

\* line 113: return ctx
ReturnStep ==
  /\ cpc = "return"
  /\ ret' = ctx
  /\ cpc' = "returned"
  /\ UNCHANGED << signals, parentDone, ctx, canceled, handlers, pending, ch, gpc,
                  received >>
  /\ UNCHANGED << parseVars, pairVars >>

\* line 109: <-ch
Receive ==
  /\ gpc = "recv"
  /\ ch # << >>
  /\ ch' = Tail(ch)
  /\ gpc' = "cancel"
  /\ UNCHANGED << signals, parentDone, cpc, ctx, canceled, ret, handlers, pending,
                  received >>
  /\ UNCHANGED << parseVars, pairVars >>

\* line 110: cancel()
CancelStep ==
  /\ gpc = "cancel"
  /\ canceled' = TRUE
  /\ gpc' = "exit"
  /\ UNCHANGED << signals, parentDone, cpc, ctx, ret, handlers, pending, ch,
                  received >>
  /\ UNCHANGED << parseVars, pairVars >>

\* the process receives signal s: the signal package takes it when a channel
\* was registered for it
Kill ==
  /\ cpc # "idle"
  /\ \E s \in Sigs :
       /\ received' = received \cup { [ sig |-> s, returned |-> cpc = "returned" ] }
       /\ pending' = IF s \in handlers THEN pending \cup { s } ELSE pending
  /\ UNCHANGED << signals, parentDone, cpc, ctx, canceled, ret, handlers, ch, gpc >>
  /\ UNCHANGED << parseVars, pairVars >>

\* the signal package relays a signal to ch, without blocking: the signal is
\* dropped when ch is full
Process ==
  /\ \E s \in pending :
       /\ pending' = pending \ { s }
       /\ ch' = IF s \in handlers /\ Len(ch) < ChanCap THEN Append(ch, s) ELSE ch
  /\ UNCHANGED << signals, parentDone, cpc, ctx, canceled, ret, handlers, gpc,
                  received >>
  /\ UNCHANGED << parseVars, pairVars >>

\* whoever holds the cancel function of the context given calls it
CancelParent ==
  /\ cpc # "idle"
  /\ ~parentDone
  /\ parentDone' = TRUE
  /\ UNCHANGED << signals, cpc, ctx, canceled, ret, handlers, pending, ch, gpc,
                  received >>
  /\ UNCHANGED << parseVars, pairVars >>

NextSignal ==
  \/ CheckSignals
  \/ WithCancel
  \/ NotifyStep
  \/ GoStep
  \/ ReturnStep
  \/ Receive
  \/ CancelStep
  \/ Kill
  \/ Process
  \/ CancelParent

\* the goroutines that are able to run do run: the caller, the goroutine of
\* CancelOnSignal and the one of the signal package
SpecSignal ==
  /\ InitSignal
  /\ [][NextSignal]_vars
  /\ WF_vars(CheckSignals \/ WithCancel \/ NotifyStep \/ GoStep \/ ReturnStep)
  /\ WF_vars(Receive \/ CancelStep)
  /\ WF_vars(Process)

(***************************************************************************)
(* The command line as its reader sees it: every token of args[1:] is a    *)
(* flag, the value of the flag before it, a terminator or a positional.    *)
(* The reading goes through the tokens once.  Among flags ("flags") a      *)
(* token in flag syntax is a flag, and takes the next token for its value  *)
(* if its field is not a boolean and it carries no "="; anything else      *)
(* opens the positionals.  Among positionals ("positionals") "--" makes    *)
(* every later token a positional ("verbatim") and a token that looks like *)
(* a flag reopens the flags.  What "--" does among flags is the parameter  *)
(* ends: TRUE is the rule of the documentation (every later token is a     *)
(* positional), FALSE is the rule of the scan (the token is dropped and    *)
(* the positionals open).                                                  *)
(***************************************************************************)

DashDash == << "-", "-" >>

IsHelpName(name) == name = << "h" >> \/ name = << "h", "e", "l", "p" >>

\* the names a field declares: the parts of its tag that are not empty
Aliases(f) == SelectSeq(Split(f.tag, ","), LAMBDA a : Len(a) > 0)

\* the index of the field of t that declares the alias, 0 if none does
Declaring(t, alias) ==
  LET is == { i \in 1..Len(Fields(t)) : alias \in Range(Aliases(Fields(t)[i])) }
  IN IF is = { } THEN 0 ELSE CHOOSE i \in is : TRUE

\* the canonical name of a declared alias: the first its field declares
Canonical(t, alias) == Aliases(Fields(t)[Declaring(t, alias)])[1]

IsSliceField(f) == f.type.kind = "slice"

\* the coercion of a literal for a field: that of the field's type, or of its
\* element type for a repeatable field
CoerceFor(f, lit) ==
  LET ty == IF IsSliceField(f)
            THEN (IF f.type.elem.kind = "ptr" THEN f.type.elem.elem ELSE f.type.elem)
            ELSE IF f.type.kind = "ptr" THEN f.type.elem
            ELSE f.type
  IN IF ty.duration THEN SetDuration(lit)
     ELSE IF ty.texter # "none" THEN UnmarshalText(lit)
     ELSE CASE ty.kind = "string" -> SetString(lit)
            [] ty.kind = "bool" -> SetBool(lit)
            [] ty.kind \in { "int", "int64" } -> SetInt(lit)
            [] ty.kind \in { "uint", "uint64" } -> SetUint(lit)
            [] ty.kind = "float64" -> SetFloat(lit)

\* one dash and a character or more, or two dashes and a character or more,
\* but not three dashes
FlagSyntax(tok) ==
  /\ Len(tok) >= 2
  /\ tok[1] = "-"
  /\ ~(Len(tok) >= 3 /\ tok[2] = "-" /\ tok[3] = "-")

NameOf(tok) ==
  LET body == IF tok[2] = "-" THEN SubSeq(tok, 3, Len(tok)) ELSE SubSeq(tok, 2, Len(tok))
      eq == { i \in 2..Len(body) : body[i] = "=" }
  IN IF eq = { } THEN [ name |-> body, valued |-> FALSE, lit |-> << >> ]
     ELSE LET i == CHOOSE i \in eq : \A j \in eq : i <= j
          IN [ name |-> SubSeq(body, 1, i - 1), valued |-> TRUE,
               lit |-> SubSeq(body, i + 1, Len(body)) ]

NoRead == [ occ |-> << >>, pos |-> << >>, stop |-> "", at |-> 0, name |-> << >> ]

Occurrence(f, alias, lit, i) ==
  [ field |-> f.name, alias |-> alias, lit |-> lit, at |-> i ]

RECURSIVE Read(_, _, _, _, _, _)
\* the reading of toks from its i-th token on; it stops at the first token
\* that is an error: occ lists the flags read, pos the positionals, stop says
\* why it stopped, at which token, and for an undeclared flag under which name
Read(t, toks, i, mode, ends, acc) ==
  IF i > Len(toks) THEN acc
  ELSE
    LET tok == toks[i]
        positional == [ acc EXCEPT !.pos = Append(@, tok) ]
        stopped(why, name) == [ acc EXCEPT !.stop = why, !.at = i, !.name = name ]
    IN IF mode = "verbatim" THEN Read(t, toks, i + 1, mode, ends, positional)
       ELSE IF mode = "positionals"
            THEN IF tok = DashDash THEN Read(t, toks, i + 1, "verbatim", ends, acc)
                 ELSE IF FlagSyntax(tok) THEN Read(t, toks, i, "flags", ends, acc)
                 ELSE Read(t, toks, i + 1, mode, ends, positional)
       ELSE IF tok = DashDash
            THEN Read(t, toks, i + 1, IF ends THEN "verbatim" ELSE "positionals", ends, acc)
       ELSE IF Len(tok) < 2 \/ tok[1] # "-"
            THEN Read(t, toks, i, "positionals", ends, acc)
       ELSE
         LET n == NameOf(tok)
             d == Declaring(t, n.name)
             f == Fields(t)[d]
             isBool == ~IsSliceField(f) /\ f.type.kind = "bool"
             lit == IF n.valued THEN n.lit
                    ELSE IF isBool THEN << "t", "r", "u", "e" >>
                    ELSE toks[i + 1]
             next == IF n.valued \/ isBool THEN i + 1 ELSE i + 2
         IN IF n.name = << >> \/ n.name[1] = "-" \/ n.name[1] = "="
            THEN stopped("syntax", << >>)
            ELSE IF d = 0 THEN stopped("undefined", n.name)
            ELSE IF ~n.valued /\ ~isBool /\ i = Len(toks) THEN stopped("novalue", << >>)
            ELSE IF ~CoerceFor(f, lit).ok THEN stopped("invalid", << >>)
            ELSE Read(t, toks, next, mode, ends,
                      [ acc EXCEPT !.occ = Append(@, Occurrence(f, n.name, lit, i)) ])

\* the reading of the command line with the "--" of the documentation
Documented == Read(target, Tail(args), 1, "flags", TRUE, NoRead)

\* the reading of the command line with the "--" of the scan
Scanned == Read(target, Tail(args), 1, "flags", FALSE, NoRead)

\* the literals given to a field, in command-line order
LiteralsOf(occ, field) ==
  LET mine == SelectSeq(occ, LAMBDA o : o.field = field)
  IN [ k \in 1..Len(mine) |-> mine[k].lit ]

\* the fields a reading leaves, from the fields before the flags: a scalar
\* holds the coercion of its last literal, a repeatable field its elements
\* followed by the coercions of its literals; for a pointer that is not nil
\* the value is the one it points to
FieldsAfter(t, before, occ) ==
  [ n \in FieldNames(t) |->
      LET f == FieldOf(t, n)
          lits == LiteralsOf(occ, n)
      IN IF IsSliceField(f)
         THEN before[n] \o [ k \in 1..Len(lits) |-> CoerceFor(f, lits[k]).val ]
         ELSE IF lits # << >> THEN CoerceFor(f, lits[Len(lits)]).val
         ELSE IF f.type.kind = "ptr" /\ before[n] # << >> THEN before[n].pointee
         ELSE before[n] ]

\* the value a pointer points to: a cell of the heap, or the variable
\* env.Parse made for it
Deref(p, hp) == IF "ptr" \in DOMAIN p THEN hp[p.ptr] ELSE p.pointee

\* the fields of the target, the pointers that are not nil and the elements
\* of a slice of pointers replaced by the values they point to
Pointed(t, vv, hp) ==
  [ n \in FieldNames(t) |->
      IF IsSliceField(FieldOf(t, n)) /\ FieldOf(t, n).type.elem.kind = "ptr"
      THEN [ k \in 1..Len(vv[n]) |-> Deref(vv[n][k], hp) ]
      ELSE IF FieldOf(t, n).type.kind = "ptr" /\ vv[n] # << >>
           THEN Deref(vv[n], hp)
      ELSE vv[n] ]

\* the call has returned, and with an error of the scan
ScanFailed ==
  /\ pc = "return"
  /\ err # NoError
  /\ "Validate" \notin Range(calls)
  /\ fs # EmptyFlagSet

\* the call has returned and the scan of a command line went through
ScanSucceeded == pc = "return" /\ args # << >> /\ ~ScanFailed

\* the position of the first "--" of a sequence of tokens, 0 if it has none
FirstDashDash(toks) ==
  IF \E i \in 1..Len(toks) : toks[i] = DashDash
  THEN CHOOSE i \in 1..Len(toks) :
         toks[i] = DashDash /\ \A j \in 1..(i - 1) : toks[j] # DashDash
  ELSE 0

\* the canonical names of the flags of a reading
CanonicalNames(t, occ) == { Canonical(t, occ[k].alias) : k \in DOMAIN occ }

\* how many flags of a reading have the canonical name c
Occurrences(t, occ, c) ==
  Cardinality({ k \in DOMAIN occ : Canonical(t, occ[k].alias) = c })

\* the variable of the environment that seeds a field: the name of the
\* field's env tag after the prefix MY_APP_ of a program named ProgName, and
\* without a prefix when the argument vector names no program; for a field
\* without env tag it is the variable named by the prefix alone
Variable(f) ==
  (IF args = << >> THEN << >> ELSE << "M", "Y", "_", "A", "P", "P", "_" >>) \o f.env

(***************************************************************************)
(* The claims.                                                             *)
(***************************************************************************)

\* C1: when args[1:] holds "--" (as first token, after a flag, after a value
\* or after a positional) and the tokens before the first "--" read without
\* error, Parse does not fail in the scan, SetArgs receives the positionals
\* before the "--" followed by every token after it, verbatim and in order
\* and without the "--", and no token after it sets a field.
C1_TerminatorEndsTheFlags ==
  (pc = "return" /\ "SetArgs" \in Methods(target) /\ args # << >>
     /\ FirstDashDash(Tail(args)) > 0) =>
    LET toks == Tail(args)
        k == FirstDashDash(toks)
        before == Read(target, Take(toks, k - 1), 1, "flags", TRUE, NoRead)
    IN before.stop = "" =>
         /\ ~ScanFailed
         /\ got.args.called
         /\ got.args.val = before.pos \o Drop(toks, k)
         /\ Pointed(target, v, heap) =
              FieldsAfter(target, ZeroStruct(target), before.occ)

\* C2: after a successful Parse the list SetArgs received is the sequence of
\* the tokens of args[1:] that are neither a flag, nor the value of a flag,
\* nor the terminator, in their order; it is empty when there are only flags
\* and values.
C2_PositionalsInOrder ==
  (ScanSucceeded /\ "SetArgs" \in Methods(target)) =>
    /\ got.args.called
    /\ Documented.stop = ""
    /\ got.args.val = Documented.pos

\* C3: after a successful Parse the set SetFlags received holds exactly the
\* canonical names (first declared alias) of the fields of which an alias was
\* read as a flag: a flag given under another alias appears under the
\* canonical name only, and no other name appears.  The flags are those the
\* scan reads: a "--" that opens or directly follows a run of flags is dropped
\* by the scan, which C1 is about.
C3_FlagsUnderCanonicalNames ==
  (ScanSucceeded /\ "SetFlags" \in Methods(target)) =>
    /\ got.flags.called
    /\ Scanned.stop = ""
    /\ got.flags.val = CanonicalNames(target, Scanned.occ)

\* C3, its case: S and I of F were given as --string and --int only, and
\* SetFlags received s and i
C3_Witness ==
  /\ pc = "return"
  /\ target = "F"
  /\ got.flags.called
  /\ got.flags.val = { << "s" >>, << "i" >> }
  /\ << "-", "s" >> \notin Range(args)

\* C4: on success a repeatable field given N times, under any mix of its
\* aliases and among other flags and positionals, holds exactly N elements,
\* the k-th being the coercion of the k-th literal (the values pointed to, for
\* a slice of pointers: a later occurrence changes no earlier element), and
\* its canonical name is counted N times.
C4_SliceElementsInOrder ==
  ScanSucceeded =>
    LET read == Scanned
        pointed == Pointed(target, v, heap)
    IN \A i \in 1..Len(Fields(target)) :
      IsSliceField(Fields(target)[i]) =>
        LET f == Fields(target)[i]
            lits == LiteralsOf(read.occ, f.name)
            elems == pointed[f.name]
        IN /\ read.stop = ""
           /\ Len(elems) = Len(lits)
           /\ \A k \in 1..Len(lits) : elems[k] = CoerceFor(f, lits[k]).val
           /\ "SetFlagsCount" \in Methods(target) =>
                /\ got.counts.called
                /\ IF lits = << >> THEN Aliases(f)[1] \notin DOMAIN got.counts.val
                   ELSE /\ Aliases(f)[1] \in DOMAIN got.counts.val
                        /\ got.counts.val[Aliases(f)[1]] = Len(lits)

\* C4, its case: -s and --string gave two strings, -prev two pointers to
\* different values, each counted twice
C4_Witness ==
  /\ pc = "return"
  /\ target = "Fs"
  /\ ~ScanFailed
  /\ v["Ss"] = << << "a" >>, << "b", "c" >> >>
  /\ Len(v["Prs"]) = 2
  /\ heap[v["Prs"][1].ptr] = << "b", "a" >>
  /\ heap[v["Prs"][2].ptr] = << "c" >>
  /\ got.counts.called
  /\ got.counts.val[<< "s" >>] = 2

\* C5: on success a scalar field whose flag was given several times, under
\* the same or different aliases, in one run of flags or in runs separated by
\* positionals, holds the coercion of the literal of the last occurrence.
C5_LastOccurrenceWins ==
  ScanSucceeded =>
    \A i \in 1..Len(Fields(target)) :
      LET f == Fields(target)[i]
          lits == LiteralsOf(Scanned.occ, f.name)
      IN (~IsSliceField(f) /\ lits # << >>) =>
           v[f.name] = CoerceFor(f, lits[Len(lits)]).val

\* C5, its case: S of F was given twice with different literals, a positional
\* between the two, and holds the second
C5_Witness ==
  /\ pc = "return"
  /\ target = "F"
  /\ ~ScanFailed
  /\ got.args.called
  /\ got.args.val = << << "a" >> >>
  /\ Len(LiteralsOf(Scanned.occ, "S")) = 2
  /\ LiteralsOf(Scanned.occ, "S")[1] = << "y" >>
  /\ v["S"] = << "a" >>
  /\ args[2] = << "-", "-", "s", "t", "r", "i", "n", "g", "=", "y" >>
  /\ args[3] = << "a" >>

\* C6: after a successful Parse of a structure with SetFlagsCount, the map it
\* received has for keys the canonical names of the flags read, each with the
\* number of times an alias of its field was read as a flag, over all the runs
\* of flags; a name that was not read is no key.
C6_CountsPerCanonicalName ==
  (ScanSucceeded /\ "SetFlagsCount" \in Methods(target)) =>
    /\ got.counts.called
    /\ Scanned.stop = ""
    /\ DOMAIN got.counts.val = CanonicalNames(target, Scanned.occ)
    /\ \A c \in DOMAIN got.counts.val :
         got.counts.val[c] = Occurrences(target, Scanned.occ, c)

\* C6, its case: S of Fc was given under -s and under --string, in two runs
\* of flags, and is counted twice under string
C6_Witness ==
  /\ pc = "return"
  /\ target = "Fc"
  /\ got.counts.called
  /\ DOMAIN got.counts.val = { << "s", "t", "r", "i", "n", "g" >> }
  /\ got.counts.val[<< "s", "t", "r", "i", "n", "g" >>] = 2
  /\ << "-", "s" >> \in Range(args)
  /\ << "-", "-", "s", "t", "r", "i", "n", "g", "=", "y" >> \in Range(args)
  /\ nonFlags # << >>

\* C7: when the structure has SetFlagsCount and the command line sets no flag
\* (args[1:] is empty or holds positionals only), SetFlagsCount is called with
\* a nil map; and a map it receives is never empty and never counts zero.
C7_NoFlagNilCounts ==
  (pc = "return" /\ args # << >> /\ "SetFlagsCount" \in Methods(target)) =>
    /\ (Scanned.stop = "" /\ Scanned.occ = << >>) =>
         got.counts.called /\ got.counts.nil
    /\ got.counts.called =>
         /\ got.counts.nil = (Scanned.occ = << >>)
         /\ \A c \in DOMAIN got.counts.val : got.counts.val[c] >= 1

\* C7, its case: two positionals and no flag, and SetFlagsCount received nil
C7_Witness ==
  /\ pc = "return"
  /\ target = "Fc"
  /\ Len(args) = 3
  /\ \A i \in 2..3 : ~FlagSyntax(args[i])
  /\ got.counts.called
  /\ got.counts.nil

\* C8: when the first token that stops the reading of args[1:] is a token in
\* flag syntax whose name no field declares, Parse returns "flag provided but
\* not defined: -<name>" with the name of that token, and calls none of
\* SetArgs, SetFlags, SetFlagsCount and Validate.
C8_UndeclaredFlagAborts ==
  (pc = "return" /\ args # << >> /\ Scanned.stop = "undefined") =>
    /\ err = NotDefined(Scanned.name)
    /\ calls = << >>
    /\ ~got.args.called /\ ~got.flags.called /\ ~got.counts.called

\* C9: when the structure declares neither h nor help and the reading of
\* args[1:] stops at a help flag (-h, --h, -help, --help, with or without a
\* value), Parse returns "flag provided but not defined: -<name>" where <name>
\* is the name given: h for -h and --h, help for -help and --help.
C9_HelpFlagUnderItsOwnName ==
  (pc = "return" /\ args # << >>
     /\ Declaring(target, << "h" >>) = 0
     /\ Declaring(target, << "h", "e", "l", "p" >>) = 0
     /\ Scanned.stop = "undefined" /\ IsHelpName(Scanned.name)) =>
    /\ err.fmt = "flag provided but not defined: -%s"
    /\ err.name = Scanned.name

\* C10: with EnvVars the environment pass is over before a flag is applied:
\* when the scan starts every field with a variable holds the value of its
\* variable and no flag is set; after the scan a scalar field that a flag
\* supplies holds the value of its last flag, whatever its variable, and a
\* field that only the environment supplies holds the value of its variable.
C10_FlagsOverEnvironment ==
  (parser.EnvVars /\ args # << >>) =>
    \A i \in 1..Len(Fields(target)) :
      LET f == Fields(target)[i]
          lits == LiteralsOf(Scanned.occ, f.name)
          supplied == Variable(f) \in DOMAIN environ
          given == IF environ[Variable(f)] = << >> THEN Zero(f.type)
                   ELSE CoerceFor(f, environ[Variable(f)]).val
      IN /\ (pc = "parseFlags" /\ supplied) =>
              v[f.name] = given /\ actual = { }
         /\ (ScanSucceeded /\ supplied /\ ~IsSliceField(f)) =>
              v[f.name] = IF lits = << >> THEN given
                          ELSE CoerceFor(f, lits[Len(lits)]).val

\* C10, its case: the environment supplies the address and the database, a
\* flag supplies the address too: Addr holds the flag's value, DB the variable's
C10_Witness ==
  /\ pc = "return"
  /\ target = "E"
  /\ parser.EnvVars
  /\ err = NoError
  /\ environ = (EnvAddr :> << "e" >>) @@ (EnvDB :> << "d" >>)
  /\ << "-", "a", "d", "d", "r", "=", "f" >> \in Range(args)
  /\ v["Addr"] = << "f" >>
  /\ v["DB"] = << "d" >>

\* the environment supplies the field and no flag does
EnvironmentOnly(f) ==
  /\ Variable(f) \in DOMAIN environ
  /\ environ[Variable(f)] # << >>
  /\ LiteralsOf(Scanned.occ, f.name) = << >>

\* C11: what SetFlags and SetFlagsCount receive is a function of the structure
\* type and the argument vector alone: after a successful Parse with EnvVars,
\* whatever the environment holds, SetFlags received the canonical names of the
\* flags read from args and SetFlagsCount the number of times each was read
\* (nil for none), and a field that only the environment supplied is in neither.
C11_ReportsIgnoreEnvironment ==
  (pc = "return" /\ err = NoError /\ parser.EnvVars /\ args # << >>) =>
    LET names == CanonicalNames(target, Scanned.occ)
    IN /\ "SetFlags" \in Methods(target) =>
            got.flags = [ called |-> TRUE, nil |-> names = { }, val |-> names ]
       /\ "SetFlagsCount" \in Methods(target) =>
            /\ got.counts.called
            /\ got.counts.nil = (names = { })
            /\ DOMAIN got.counts.val = names
            /\ \A c \in names : got.counts.val[c] = Occurrences(target, Scanned.occ, c)
       /\ \A i \in 1..Len(Fields(target)) :
            EnvironmentOnly(Fields(target)[i]) =>
              /\ Aliases(Fields(target)[i])[1] \notin got.flags.val
              /\ Aliases(Fields(target)[i])[1] \notin DOMAIN got.counts.val

\* C11, its case: the environment supplied the address and the port of the
\* command structure, a flag the port only: Addr holds the variable's value,
\* and p alone was reported and counted
C11_Witness ==
  /\ pc = "return"
  /\ err = NoError
  /\ target = "Cmd"
  /\ parser.EnvVars
  /\ environ = (EnvAddr :> << "e" >>) @@ (EnvPort :> << "9" >>)
  /\ v["Addr"] = << "e" >>
  /\ v["Port"] = IntVal(FALSE, << 8 >>)
  /\ got.flags.called /\ got.flags.val = { << "p" >> }
  /\ got.counts.called /\ got.counts.val = (<< "p" >> :> 1)

\* the environment gives the field a value: its variable is set and not empty
Supplies(f) ==
  /\ parser.EnvVars
  /\ Variable(f) \in DOMAIN environ
  /\ environ[Variable(f)] # << >>

\* the value a variable of the environment gives a field: a repeatable field
\* takes the parts between the commas as its elements, a pointer that is nil
\* is made to point to the value
FromEnvironment(f, s) ==
  IF IsSliceField(f)
  THEN LET parts == Split(s, ",")
       IN [ ok |-> \A k \in 1..Len(parts) : CoerceFor(f, parts[k]).ok,
            val |-> [ k \in 1..Len(parts) |-> CoerceFor(f, parts[k]).val ] ]
  ELSE IF f.type.kind = "ptr"
  THEN [ ok |-> CoerceFor(f, s).ok, val |-> NewPointer(CoerceFor(f, s).val) ]
  ELSE CoerceFor(f, s)

\* the environment resolves: no field is a pointer that is not nil, which
\* the environment pass refuses, and every variable that is set reads as a
\* value of its field's type
EnvironmentResolves ==
  /\ IsStructPointer(target)
  /\ \A i \in 1..Len(Fields(target)) :
       /\ (parser.EnvVars /\ Fields(target)[i].type.kind = "ptr") =>
            v0[Fields(target)[i].name] = << >>
       /\ Supplies(Fields(target)[i]) =>
            FromEnvironment(Fields(target)[i], environ[Variable(Fields(target)[i])]).ok

\* the fields once the environment is resolved, from the fields before the call
Seeded(t, before) ==
  [ n \in FieldNames(t) |->
      IF Supplies(FieldOf(t, n))
      THEN FromEnvironment(FieldOf(t, n), environ[Variable(FieldOf(t, n))]).val
      ELSE before[n] ]

\* the methods SetArgs, SetFlags and SetFlagsCount the structure has, in the
\* order of the documentation
Deliveries(t) ==
  (IF "SetArgs" \in Methods(t) THEN << "SetArgs" >> ELSE << >>)
    \o (IF "SetFlags" \in Methods(t) THEN << "SetFlags" >> ELSE << >>)
    \o (IF "SetFlagsCount" \in Methods(t) THEN << "SetFlagsCount" >> ELSE << >>)

\* what the validation of a structure answers for given fields: the message
\* of its error, "" if it accepts them
Verdict(t, vv) ==
  CASE t = "Cmd" /\ ~vv["Help"] /\ vv["Addr"] = << >> -> "address must be set"
    [] t = "E" /\ ~(vv["Help"] \/ vv["Version"]) /\ vv["Addr"] = << >> ->
         "address must be set"
    [] t = "E" /\ ~(vv["Help"] \/ vv["Version"]) /\ vv["Addr"] # << >>
         /\ vv["DB"] = << >> -> "db must be set"
    [] OTHER -> ""

\* C12: for a structure with Validate, when the environment resolves and the
\* command line reads without error, Parse returns after exactly one call of
\* Validate, made after SetArgs, SetFlags and SetFlagsCount were called (with
\* an empty argument vector none of them is); the fields then hold what the
\* environment and the flags gave them, also when the validation fails, and
\* the error Parse returns is the answer of Validate for those fields.
C12_ValidateLastAndVerbatim ==
  (pc = "return" /\ "Validate" \in Methods(target) /\ EnvironmentResolves
     /\ (args # << >> => Scanned.stop = "")) =>
    LET given == IF args = << >> THEN Seeded(target, v0)
                 ELSE FieldsAfter(target, Seeded(target, v0), Scanned.occ)
    IN /\ calls = (IF args = << >> THEN << >> ELSE Deliveries(target)) \o << "Validate" >>
       /\ Pointed(target, v, heap) = given
       /\ err.fmt = Verdict(target, given)
       /\ err.name = << >> /\ err.value = << >> /\ err.cause = ""

\* C12, its case: the command line gave the port of the command structure and
\* nothing gave the address: the three methods were called, then Validate,
\* whose error is returned, and Port holds the flag's value
C12_Witness ==
  /\ pc = "return"
  /\ target = "Cmd"
  /\ calls = << "SetArgs", "SetFlags", "SetFlagsCount", "Validate" >>
  /\ err = ErrorsNew("address must be set")
  /\ v["Port"] = IntVal(FALSE, << 8 >>)
  /\ got.flags.val = { << "p" >> }

\* the format of the error of a reading that stopped
ScanErrorFormats(stop) ==
  CASE stop = "undefined" -> { "flag provided but not defined: -%s" }
    [] stop = "syntax" -> { "bad flag syntax: %s" }
    [] stop = "novalue" -> { "flag needs an argument: -%s" }
    [] stop = "invalid" -> { "invalid value %q for flag -%s: %v",
                             "invalid boolean value %q for -%s: %v" }
    [] OTHER -> { }

NothingDelivered ==
  /\ calls = << >>
  /\ ~got.args.called /\ ~got.flags.called /\ ~got.counts.called

\* C13: Parse returns the error of the first phase that fails, in the order
\* environment, flag scan, validation.  When the environment does not resolve
\* the error is that of the environment, whatever args holds: no flag was
\* parsed (the fields hold what they held or what the environment gave them),
\* no method of the structure was called.  When the environment resolves and
\* the reading of args stops on an error, the error is that of the scan and no
\* method was called.  Otherwise the error, if any, is that of Validate.
C13_FirstErrorInPhaseOrder ==
  pc = "return" =>
    IF parser.EnvVars /\ ~EnvironmentResolves
    THEN /\ err.fmt = "env: %v"
         /\ NothingDelivered
         /\ actual = { } /\ flagsCount = << >> /\ heap = << >>
         /\ \A n \in FieldNames(target) :
              v[n] = v0[n] \/ (Supplies(FieldOf(target, n)) /\ v[n] = Seeded(target, v0)[n])
    ELSE IF args # << >> /\ Scanned.stop # ""
    THEN /\ err.fmt \in ScanErrorFormats(Scanned.stop)
         /\ NothingDelivered
    ELSE /\ err.fmt = Verdict(target, v)
         /\ Len(SelectSeq(calls, LAMBDA m : m = "Validate")) =
              IF "Validate" \in Methods(target) THEN 1 ELSE 0

\* C13, its case: the port in the environment is not a number and the command
\* line gives the address: Parse returned the error of the environment, Addr
\* was not set and no method was called
C13_Witness ==
  /\ pc = "return"
  /\ target = "Cmd"
  /\ parser.EnvVars
  /\ environ = (EnvPort :> << "x" >>)
  /\ << "-", "a", "d", "d", "r", "=", "f" >> \in Range(args)
  /\ err = EnvParseError(<< "Port" >>)
  /\ v["Addr"] = << >>
  /\ calls = << >>

\* C14: a Parse with an empty argument vector scans nothing: when it returns
\* no flag set was built, no flag or positional was read, none of SetArgs,
\* SetFlags and SetFlagsCount was called and the fields hold what the
\* environment pass left; the error is that of the environment if EnvVars is
\* enabled and the environment does not resolve, and otherwise the answer of
\* Validate, called once if the structure has it.
C14_EmptyVectorScansNothing ==
  (pc = "return" /\ args = << >>) =>
    /\ fs = EmptyFlagSet /\ rest = << >> /\ nonFlags = << >>
    /\ actual = { } /\ flagsCount = << >> /\ heap = << >>
    /\ ~got.args.called /\ ~got.flags.called /\ ~got.counts.called
    /\ IF parser.EnvVars /\ ~EnvironmentResolves
       THEN /\ calls = << >>
            /\ err.fmt = "env: %v"
       ELSE /\ v = Seeded(target, v0)
            /\ calls = IF "Validate" \in Methods(target) THEN << "Validate" >> ELSE << >>
            /\ err.fmt = Verdict(target, v)

\* C14, its case: no argument at all, EnvVars enabled and the address in the
\* environment under its name without prefix: Addr holds it, Validate alone
\* was called and accepted
C14_Witness ==
  /\ pc = "return"
  /\ args = << >>
  /\ target = "Cmd"
  /\ parser.EnvVars
  /\ v["Addr"] = << "u" >>
  /\ calls = << "Validate" >>
  /\ err = NoError

\* every alias the structure declares, in declaration order
RECURSIVE AllAliases(_)
AllAliases(fields) ==
  IF fields = << >> THEN << >> ELSE Aliases(fields[1]) \o AllAliases(Tail(fields))

\* the positions of the aliases that an earlier position declares too
Collisions(t) ==
  LET all == AllAliases(Fields(t))
  IN { i \in 1..Len(all) : \E j \in 1..(i - 1) : all[j] = all[i] }

\* the first alias, in declaration order, that is declared a second time
FirstCollision(t) ==
  LET at == Collisions(t)
  IN AllAliases(Fields(t))[CHOOSE i \in at : \A j \in at : i <= j]

\* C15: for a structure that declares an alias twice (on two fields, as first
\* or as later name, or twice on one field), Parse with any argument vector
\* never gets past the binding of the flags and never returns: it ends in the
\* panic "flag redefined: <alias>" for the alias declared twice, no token of
\* args[1:] having been read and no field having been assigned.
C15_DuplicateAliasIsFatal ==
  (IsStructPointer(target) /\ Collisions(target) # { }) =>
    /\ pc \in { "Parse", "parseFlags", "panic" }
    /\ pc = "panic" =>
         /\ fs.panic.panic = "flag redefined: %s"
         /\ fs.panic.name = FirstCollision(target)
         /\ v = v0 /\ rest = << >> /\ actual = { } /\ calls = << >>

\* the types a flag can be declared on: a string, an int or int64, a uint or
\* uint64, a float64, a bool, a time.Duration, a type with the text codec on
\* its values or on pointers to them
SupportedScalar(ty) ==
  \/ ty.duration
  \/ ty.texter # "none"
  \/ ty.kind \in { "string", "int", "int64", "uint", "uint64", "float64", "bool" }

\* the first field, in declaration order, that declares a flag on a type that
\* is neither supported nor a slice of a supported type; 0 if there is none
FirstUnsupported(t) ==
  LET bad == { i \in 1..Len(Fields(t)) :
                 /\ Aliases(Fields(t)[i]) # << >>
                 /\ ~SupportedScalar(Fields(t)[i].type)
                 /\ ~(Fields(t)[i].type.kind = "slice"
                      /\ SupportedScalar(Fields(t)[i].type.elem)) }
  IN IF bad = { } THEN 0 ELSE CHOOSE i \in bad : \A j \in bad : i <= j

\* C16: when the target is not a pointer to a structure, or a field that
\* declares a flag has an unsupported type, Parse with any argument vector
\* never returns: it ends in a panic, and the panic for an unsupported type
\* carries the name and the type of the field.
C16_BadTargetIsFatal ==
  (~IsStructPointer(target) \/ FirstUnsupported(target) # 0) =>
    /\ pc \in { "Parse", "parseFlags", "panic" }
    /\ (pc = "panic" /\ IsStructPointer(target)) =>
         /\ fs.panic.panic = "unsupported flag field kind: %s (%s: %s)"
         /\ fs.panic.field = Fields(target)[FirstUnsupported(target)].name
         /\ fs.panic.type = Fields(target)[FirstUnsupported(target)].type

\* the flag at which a reading stopped for a literal that does not coerce: its
\* name as typed (without the dashes), its literal and its field
Offending ==
  LET toks == Tail(args)
      n == NameOf(toks[Scanned.at])
  IN [ name |-> n.name,
       lit |-> IF n.valued THEN n.lit ELSE toks[Scanned.at + 1],
       field |-> Fields(target)[Declaring(target, n.name)] ]

\* the reading of args stopped at a literal that does not coerce, the
\* environment pass having gone through
StoppedAtInvalid ==
  /\ pc = "return"
  /\ args # << >>
  /\ ~(parser.EnvVars /\ ~EnvironmentResolves)
  /\ Scanned.stop = "invalid"

\* C17: when the reading of args stops at a flag whose literal cannot be
\* coerced to the type of its field (of its elements, for a repeatable field),
\* Parse returns an error of the form invalid value "<literal>" for flag
\* -<name>, with that literal and the name as typed, no field other than the
\* flag's own holds anything from that token or a later one, and none of
\* SetArgs, SetFlags, SetFlagsCount and Validate is called.
C17_InvalidValueAborts ==
  StoppedAtInvalid =>
    /\ err.fmt = "invalid value %q for flag -%s: %v"
    /\ err.name = Offending.name
    /\ err.value = Offending.lit
    /\ NothingDelivered
    /\ \A n \in FieldNames(target) \ { Offending.field.name } :
         Pointed(target, v, heap)[n] =
           FieldsAfter(target, Seeded(target, v0), Scanned.occ)[n]

\* C17 as amended: the same, the error of a boolean field being of the form
\* invalid boolean value "<literal>" for -<name>.
C17_InvalidValueAbortsByKind ==
  StoppedAtInvalid =>
    /\ err.fmt = IF Offending.field.type.kind = "bool"
                 THEN "invalid boolean value %q for -%s: %v"
                 ELSE "invalid value %q for flag -%s: %v"
    /\ err.name = Offending.name
    /\ err.value = Offending.lit
    /\ NothingDelivered
    /\ \A n \in FieldNames(target) \ { Offending.field.name } :
         Pointed(target, v, heap)[n] =
           FieldsAfter(target, Seeded(target, v0), Scanned.occ)[n]

\* C17, its case: F held the values of TestParseDefaultsSet, the command line
\* gave --int=7 and then -u64=-1: the error carries -1 and u64, I holds 7 and
\* no method was called
C17_Witness ==
  /\ pc = "return"
  /\ target = "F"
  /\ v0 = DefaultsF
  /\ err.fmt = "invalid value %q for flag -%s: %v"
  /\ err.name = << "u", "6", "4" >>
  /\ err.value = << "-", "1" >>
  /\ v["I"] = IntVal(FALSE, << 7 >>)
  /\ calls = << >>
  /\ ~got.args.called /\ ~got.flags.called

\* C18: with EnvVars disabled, after a successful Parse every field that
\* declares no flag, and every field of which no alias was read as a flag in
\* args[1:], holds the value it held before the call; a field that changed is
\* a field whose flag was given.
C18_UnsetFieldsKeepTheirValues ==
  (pc = "return" /\ err = NoError /\ ~parser.EnvVars) =>
    \A n \in FieldNames(target) :
      \/ v[n] = v0[n]
      \/ /\ args # << >>
         /\ Aliases(FieldOf(target, n)) # << >>
         /\ LiteralsOf(Scanned.occ, n) # << >>

\* C18, its case: F held the values of TestParseDefaultsSet and the command
\* line gave --int=7 only: I holds 7, every other field what it held
C18_Witness ==
  /\ pc = "return"
  /\ err = NoError
  /\ target = "F"
  /\ v0 = DefaultsF
  /\ v = [ DefaultsF EXCEPT !["I"] = IntVal(FALSE, << 7 >>) ]
  /\ got.flags.val = { << "i" >> }

\* the flags are bound: the call is past the loop over the fields
FlagsBound ==
  /\ pc \in { "fs.Parse", "collect", "deliver", "Validate", "return" }
  /\ fs # EmptyFlagSet

\* the flag set declares each name of names(f) for its field f, under the
\* first of them for canonical name, and no other name
Declares(names(_)) ==
  /\ DOMAIN fs.formal =
       UNION { Range(names(Fields(target)[i])) : i \in 1..Len(Fields(target)) }
  /\ \A i \in 1..Len(Fields(target)) :
       \A a \in Range(names(Fields(target)[i])) :
         /\ a \in DOMAIN fs.formal
         /\ fs.formal[a].field = Fields(target)[i].name
         /\ fs.canonLookup[a] = names(Fields(target)[i])[1]

\* a name without the whitespace around it
RECURSIVE TrimSpace(_)
TrimSpace(a) ==
  IF a # << >> /\ a[1] \in { " ", "\t", "\n", "\r" } THEN TrimSpace(Tail(a))
  ELSE IF a # << >> /\ a[Len(a)] \in { " ", "\t", "\n", "\r" }
       THEN TrimSpace(SubSeq(a, 1, Len(a) - 1))
       ELSE a

\* the names of a tag, each trimmed of the spaces around it, without those
\* that are then empty
TrimmedNames(f) ==
  SelectSeq([ i \in 1..Len(Split(f.tag, ",")) |-> TrimSpace(Split(f.tag, ",")[i]) ],
            LAMBDA nm : nm # << >>)

\* C19: the flags bound for a structure are the aliases of its annotations,
\* each trimmed of leading and trailing whitespace, those empty after
\* trimming dropped, and the canonical name of a field is its first such
\* alias.  parseFlags binds the names as written between the commas: the
\* field Spaced of F, declared ", sp , spaced ", is bound to " sp " and
\* " spaced ", and "sp" is no flag.
C19_AliasesAreTrimmed == FlagsBound => Declares(TrimmedNames)

\* a signal of the list was received
ListedReceived == \E r \in received : r.sig \in signals

\* a signal of the list was received after CancelOnSignal returned
ListedReceivedSince == \E r \in received : r.sig \in signals /\ r.returned

\* CancelOnSignal returned what the claim says: the context given when no
\* signal is listed, and else a context that is canceled only if a listed
\* signal was received or the context given is canceled
ReturnedAsSaid ==
  cpc = "returned" =>
    /\ signals = { } => ret = "parent"
    /\ signals # { } => ret = "child"
    /\ Done(ret) => (ListedReceived \/ parentDone)

\* C20: CancelOnSignal without signals returns the context it was given; with
\* signals it returns a context that is not canceled as long as no listed
\* signal was received and the context given is not canceled, and that is
\* eventually canceled once a listed signal is received.
C20_CanceledOnListedSignal ==
  /\ []ReturnedAsSaid
  /\ (cpc = "returned" /\ signals # { } /\ ListedReceivedSince) ~> Done(ret)

\* C20, its case: SIGUSR1 was listed with SIGINT, the context given is not
\* canceled, SIGTERM then SIGUSR1 were received after the return and the
\* context returned is canceled
C20_Witness ==
  /\ cpc = "returned"
  /\ signals = { "SIGINT", "SIGUSR1" }
  /\ ret = "child"
  /\ ~parentDone
  /\ received = { [ sig |-> "SIGTERM", returned |-> TRUE ],
                  [ sig |-> "SIGUSR1", returned |-> TRUE ] }
  /\ gpc = "exit"
  /\ Done(ret)

\* the listener of CancelOnSignal: the goroutine of lines 108-111, from its
\* start to its end
ListenerRuns == gpc \in { "recv", "cancel" }

\* C21: a call of CancelOnSignal with signals starts at most one listener,
\* which waits once, cancels once and ends; and once the context given has
\* ended the listener eventually ends, even if no listed signal is ever
\* received.
C21_ListenerEndsWithParent ==
  /\ [](signals = { } => gpc = "none")
  /\ [][gpc' # gpc =>
          \/ gpc = "none" /\ gpc' = "recv" /\ signals # { }
          \/ gpc = "recv" /\ gpc' = "cancel"
          \/ gpc = "cancel" /\ gpc' = "exit" /\ canceled']_vars
  /\ (ListenerRuns /\ parentDone) ~> ~ListenerRuns

\* one step of a call of Parse that runs alone, as a function of its
\* variables fr, of the Parser P and of the environment E
AloneStep(fr, P, E) ==
  CASE fr.pc = "Parse" ->
         IF P.EnvVars
         THEN LET r == EnvParse(fr.target, fr.v, EnvPrefixOf(P.EnvPrefix, fr.args), E)
              IN [ fr EXCEPT !.v = r.v, !.err = r.err,
                             !.pc = IF r.err # NoError THEN "return" ELSE "parseFlags" ]
         ELSE [ fr EXCEPT !.pc = "parseFlags" ]
    [] fr.pc = "parseFlags" ->
         IF fr.args = << >> THEN [ fr EXCEPT !.pc = "Validate" ]
         ELSE LET new == NewFlagSet(fr.target, fr.v)
              IN IF new.panic # NoPanic THEN [ fr EXCEPT !.pc = "panic", !.fs = new ]
                 ELSE [ fr EXCEPT !.fs = setupFlagsCount(new, fr.target),
                                  !.heap = new.cells,
                                  !.rest = Tail(fr.args),
                                  !.pc = IF Tail(fr.args) = << >> THEN "deliver"
                                         ELSE "fs.Parse" ]
    [] fr.pc = "fs.Parse" ->
         LET st == FlagSetParse(fr.fs, [ args |-> fr.rest, v |-> fr.v, heap |-> fr.heap,
                                         actual |-> fr.actual,
                                         flagsCount |-> fr.flagsCount,
                                         err |-> NoError, panic |-> NoPanic ])
             on == [ fr EXCEPT !.v = st.v, !.heap = st.heap, !.actual = st.actual,
                               !.flagsCount = st.flagsCount ]
         IN IF st.panic # NoPanic
            THEN [ on EXCEPT !.fs.panic = st.panic, !.pc = "panic" ]
            ELSE IF st.err # NoError
            THEN [ on EXCEPT !.err = ScanError(fr.fs, fr.rest, st.err), !.pc = "return" ]
            ELSE [ on EXCEPT !.rest = st.args, !.pc = "collect" ]
    [] fr.pc = "collect" ->
         LET c == CollectFrom(fr.nonFlags, fr.rest)
         IN [ fr EXCEPT !.nonFlags = c.nonFlags, !.rest = c.args,
                        !.pc = IF c.args = << >> THEN "deliver" ELSE "fs.Parse" ]
    [] fr.pc = "deliver" ->
         [ fr EXCEPT
             !.got = [ args |-> IF "SetArgs" \in Methods(fr.target)
                                THEN Received(fr.nonFlags = << >>, fr.nonFlags)
                                ELSE fr.got.args,
                       flags |-> IF "SetFlags" \in Methods(fr.target)
                                 THEN FlagsArgument(fr.fs, fr.actual) ELSE fr.got.flags,
                       counts |-> IF "SetFlagsCount" \in Methods(fr.target)
                                  THEN CountsArgument(fr.flagsCount)
                                  ELSE fr.got.counts ],
             !.calls = fr.calls \o DeliveryCalls(fr.target),
             !.pc = "Validate" ]
    [] fr.pc = "Validate" ->
         IF "Validate" \in Methods(fr.target)
         THEN [ fr EXCEPT !.err = ValidateOf(fr.target, fr.v),
                          !.calls = Append(fr.calls, "Validate"), !.pc = "return" ]
         ELSE [ fr EXCEPT !.pc = "return" ]
    [] OTHER -> fr

\* a call of Parse, from the variables fr on, with no other call running
RECURSIVE RunAlone(_, _, _)
RunAlone(fr, P, E) ==
  IF fr.pc \in { "return", "panic" } THEN fr ELSE RunAlone(AloneStep(fr, P, E), P, E)

\* what a call leaves: the fields, what the methods received, the error
Outcome(fr) ==
  [ v |-> Pointed(fr.target, fr.v, fr.heap), got |-> fr.got, calls |-> fr.calls,
    err |-> fr.err, ended |-> fr.pc ]

\* the call of variables fr is over and left what it leaves when it runs alone
AsAlone(fr) ==
  fr.pc \in { "return", "panic" } =>
    Outcome(fr) = Outcome(RunAlone(StartFrame(fr.target, fr.args, fr.v0), parser, environ))

\* C22: the Parser keeps nothing between calls, so of two calls of Parse that
\* run concurrently on distinct structures, under any interleaving of their
\* steps, each leaves the fields, the positionals, the flags, the counts and
\* the error it leaves when it runs alone.
C22_ConcurrentCallsAsAlone ==
  other # NoFrame => AsAlone(Frame) /\ AsAlone(other)

\* C22, its case: the first call returned with its positional and its flag
\* while the second, begun before, is in its scan with its own positional
\* collected and has yet to deliver it
C22_Witness ==
  /\ other # NoFrame
  /\ turn = 1
  /\ pc = "return"
  /\ args = << ProgName, << "-", "p", "=", "8" >>, << "a" >> >>
  /\ got.args.val = << << "a" >> >>
  /\ got.counts.val = (<< "p" >> :> 1)
  /\ other.pc = "fs.Parse"
  /\ other.args = << ProgName, << "a" >>, << "-", "h", "=", "x" >> >>
  /\ other.nonFlags = << << "a" >> >>

\* a token that begins with a dash and does not look like a flag: a lone
\* dash, or three dashes or more
DashedNonFlag(tok) ==
  /\ tok # << >>
  /\ tok[1] = "-"
  /\ tok # DashDash
  /\ ~FlagSyntax(tok)

\* the positions of toks taken as the value of the flag before them
ValuePositions(t, toks, occ) ==
  { occ[k].at + 1 : k \in { j \in DOMAIN occ :
      /\ ~NameOf(toks[occ[j].at]).valued
      /\ LET f == Fields(t)[Declaring(t, occ[j].alias)]
         IN IsSliceField(f) \/ f.type.kind # "bool" } }

\* C23: a token is taken for a flag by the same test where flags are read and
\* where positionals are collected, so a token such as "---x" or "-" never
\* raises a flag error and, wherever it stands (first, after a flag, after a
\* positional), is collected as a positional.
C23_DashedNonFlagsArePositionals ==
  (pc = "return" /\ args # << >> /\ fs # EmptyFlagSet) =>
    /\ \A i \in 1..Len(Tail(args)) :
         DashedNonFlag(Tail(args)[i]) =>
           ~(err.fmt = "bad flag syntax: %s" /\ err.value = Tail(args)[i])
    /\ (ScanSucceeded /\ "SetArgs" \in Methods(target)) =>
         \A i \in 1..Len(Tail(args)) :
           (DashedNonFlag(Tail(args)[i])
              /\ i \notin ValuePositions(target, Tail(args), Scanned.occ))
             => Tail(args)[i] \in Range(got.args.val)

\* the four methods Parse looks for, in the order the claim gives
Capabilities == << "SetArgs", "SetFlags", "SetFlagsCount", "Validate" >>

\* C24: when the scan of a non-empty argument vector succeeds, the methods
\* the structure implements among SetArgs, SetFlags, SetFlagsCount and
\* Validate are called in that order, each once, and no other: a structure
\* that implements any subset gets that subset (SetArgs is called even when
\* no field declares a flag).
C24_CapabilitiesInOrder ==
  (/\ pc = "return"
   /\ args # << >>
   /\ ~(parser.EnvVars /\ ~EnvironmentResolves)
   /\ Scanned.stop = "") =>
    /\ calls = SelectSeq(Capabilities, LAMBDA m : m \in Methods(target))
    /\ got.args.called = ("SetArgs" \in Methods(target))
    /\ got.flags.called = ("SetFlags" \in Methods(target))
    /\ got.counts.called = ("SetFlagsCount" \in Methods(target))

\* C24, its case: the command structure, which implements the four, had them
\* called in order, Validate last and with an error
C24_Witness ==
  /\ pc = "return"
  /\ target = "Cmd"
  /\ calls = Capabilities
  /\ got.args.val # << >>
  /\ got.counts.val # << >>
  /\ err # NoError

\* the sum of the values of a function of integers
RECURSIVE SumOf(_)
SumOf(f) ==
  IF DOMAIN f = { } THEN 0
  ELSE LET k == CHOOSE k \in DOMAIN f : TRUE
       IN f[k] + SumOf([ j \in DOMAIN f \ { k } |-> f[j] ])

\* an iteration of the loop of parseFlags that begins here, at fs.Parse,
\* ends with an error or leaves fewer tokens than it found
IterationShortens(st) ==
  /\ rest # << >>
  /\ \/ st.err # NoError
     \/ Len(CollectFrom(nonFlags, st.args).args) < Len(rest)

\* every token that is no "--" and no value of a flag was taken once: as a
\* flag, counted, or as a positional, delivered; the others are the values
\* and the "--" that were dropped or delivered
Accounted ==
  LET toks == Tail(args)
      values == ValuePositions(target, toks, Scanned.occ)
  IN /\ Cardinality({ i \in DOMAIN toks : i \notin values /\ toks[i] # DashDash })
          = Len(SelectSeq(got.args.val, LAMBDA a : a # DashDash))
              + SumOf(got.counts.val)
     /\ Len(got.args.val) + SumOf(got.counts.val) + Cardinality(values)
          <= Len(toks)

\* a bound on the steps Parse has left: it counts the tokens the loop of
\* parseFlags has yet to take, twice, and the steps outside the loop
StepsLeft ==
  CASE pc = "Parse" -> 2 * Len(args) + 8
    [] pc = "parseFlags" -> 2 * Len(args) + 7
    [] pc = "fs.Parse" -> 2 * Len(rest) + 4
    [] pc = "collect" -> 2 * Len(CollectFrom(nonFlags, rest).args) + 5
    [] pc = "deliver" -> 2
    [] pc = "Validate" -> 1
    [] OTHER -> 0

\* the same bound, in the state a step leads to
StepsLeftNext ==
  CASE pc' = "Parse" -> 2 * Len(args') + 8
    [] pc' = "parseFlags" -> 2 * Len(args') + 7
    [] pc' = "fs.Parse" -> 2 * Len(rest') + 4
    [] pc' = "collect" -> 2 * Len(CollectFrom(nonFlags', rest').args) + 5
    [] pc' = "deliver" -> 2
    [] pc' = "Validate" -> 1
    [] OTHER -> 0

\* C25: the loop of parseFlags ends for every argument vector: each of its
\* iterations returns an error or leaves strictly fewer tokens, the tokens
\* left never grow, every step of Parse lowers a bound on the steps left,
\* Parse has a step to take until it returns, and when the loop ends every
\* token of args[1:] was taken exactly once, as a flag, the value of a flag,
\* the terminator or a positional.
C25_ScanTerminates ==
  /\ [](pc = "fs.Parse" =>
          IterationShortens(FlagSetParse(fs, [ args |-> rest, v |-> v, heap |-> heap,
                                               actual |-> actual,
                                               flagsCount |-> flagsCount,
                                               err |-> NoError, panic |-> NoPanic ])))
  /\ [][(pc = "fs.Parse" \/ pc = "collect") => Len(rest') <= Len(rest)]_vars
  /\ [][StepsLeftNext < StepsLeft]_vars
  /\ [](pc \in { "Parse", "parseFlags", "fs.Parse", "collect", "deliver", "Validate",
                  "return" })
  /\ []((got.args.called /\ got.counts.called) => Accounted)

\* C25, its case: the loop ran twice, over a flag and its value, a positional
\* and a flag after it, and every token is accounted for
C25_Witness ==
  /\ pc = "return"
  /\ args = << ProgName, << "-", "a", "d", "d", "r" >>, << "a" >>, << "a" >>,
               << "-", "h" >> >>
  /\ got.args.val = << << "a" >> >>
  /\ v["Addr"] = << "a" >>
  /\ got.counts.val = (<< "a", "d", "d", "r" >> :> 1) @@ (<< "h" >> :> 1)

\* the reading of args stopped at a token, the environment pass having gone
\* through: an undeclared flag, a flag without its value, a literal that does
\* not coerce or a token that is no flag
StoppedAtToken ==
  /\ pc = "return"
  /\ args # << >>
  /\ ~(parser.EnvVars /\ ~EnvironmentResolves)
  /\ Scanned.stop # ""

\* C26: nothing is rolled back when the scan stops with an error at the token
\* of position p: the fields hold exactly the effect of the flags before p (a
\* scalar its last literal, a repeatable field its elements so far) and are
\* otherwise as they were before the flags were read.
C26_FieldsAsBeforeTheStop ==
  StoppedAtToken =>
    Pointed(target, v, heap) = FieldsAfter(target, Seeded(target, v0), Scanned.occ)

\* C27: a repeatable field only grows while the flags are read: from the
\* environment pass on it begins with the elements it held before the flags,
\* those of the caller or those the environment gave it, and after a
\* successful scan it holds them followed by the elements of its
\* command-line occurrences, in order
C27_RepeatableFieldsAppendOnly ==
  (IsStructPointer(target) /\ args # << >>
     /\ (parser.EnvVars => EnvironmentResolves)
     /\ pc \in { "parseFlags", "fs.Parse", "collect", "deliver", "Validate", "return" }) =>
    LET pointed == Pointed(target, v, heap)
        seeded == Seeded(target, v0)
    IN \A i \in 1..Len(Fields(target)) :
         IsSliceField(Fields(target)[i]) =>
           LET f == Fields(target)[i]
               had == seeded[f.name]
               now == pointed[f.name]
           IN /\ Len(had) <= Len(now)
              /\ \A k \in 1..Len(had) : now[k] = had[k]
              /\ ScanSucceeded =>
                   LET lits == LiteralsOf(Scanned.occ, f.name)
                   IN now = had \o [ k \in 1..Len(lits) |-> CoerceFor(f, lits[k]).val ]

\* C27, its case: the environment gave the strings "p" and "q", which took the
\* place of the caller's "d", and the flags -s=b and -s=a came after them
C27_Witness ==
  /\ pc = "return"
  /\ err = NoError
  /\ target = "Seeded"
  /\ parser.EnvVars
  /\ environ = EnvironSeeded
  /\ v0["Ss"] = << << "d" >> >>
  /\ v["Ss"] = << << "p" >>, << "q" >>, << "b" >>, << "a" >> >>
  /\ v["Is"] = << IntVal(FALSE, << 4 >>) >>

====
